---------------------------- MODULE Spec2Model ----------------------------
(***************************************************************************)
(* A model of the serial line protocol engine of the cardio2e gateway:     *)
(* cardio2e_modules/cardio2e_serial.py (send_command, query_state, login)  *)
(* and cardio2e_modules/cardio2e_listener.py (listen_for_updates and its   *)
(* dispatcher).                                                            *)
(*                                                                         *)
(* and the cover-stop thread of cardio2e_covers.py, which calls query_state *)
(* while the listener runs.                                                *)
(*                                                                         *)
(* The handlers behind them are modelled as well: the HVAC set command and *)
(* the @I H update of cardio2e_hvac.py on the record app_state.lock        *)
(* guards, the zone and bypass handlers of cardio2e_zones.py, the error    *)
(* report of cardio2e_errors.py and the logout of cardio2e_serial.py.      *)
(*                                                                         *)
(* Text is a sequence of characters, each character a string.  The bytes   *)
(* of the line are the ASCII characters themselves plus the two bytes of   *)
(* one two-byte UTF-8 sequence, so that bytes.decode(errors="ignore") is   *)
(* not the identity.  Clocks count whole ticks; a sleep of a few           *)
(* milliseconds may end within the tick in which it began.                 *)
(***************************************************************************)
EXTENDS Integers, Sequences, FiniteSets, TLC

\* ------------------------------------------------------------------ text

CR == "<CR>"
LF == "<LF>"
SP == " "
\* The two bytes 0xC3 0xA9 of the UTF-8 encoding of U+00E9, and that character.
LEAD == "xC3"
CONT == "xA9"
EACUTE == "U+00E9"
\* Python's None where a text or a list of tokens is expected, and an unheld lock.
NONE == <<"None">>
FREE == "free"

\* What str.strip() and str.split() treat as whitespace, among the characters used.
Whitespace == {SP, CR, LF}
Terminators == {CR, LF}

\* F applied to the value of v, which is evaluated once however often F uses it.
With(v, F(_)) == CHOOSE r \in {F(x) : x \in {v}} : TRUE

\* The mark of a position that contributes no character to a result.
DROPPED == "dropped"

\* bytes.decode(errors="ignore"): the two bytes of the sequence give its
\* character, an incomplete or stray byte of it is dropped.
Decode(bytes) ==
    With(bytes, LAMBDA b :
        SelectSeq([i \in 1..Len(b) |->
                      IF b[i] = LEAD
                      THEN IF i < Len(b) /\ b[i + 1] = CONT THEN EACUTE ELSE DROPPED
                      ELSE IF b[i] = CONT THEN DROPPED
                      ELSE b[i]],
                  LAMBDA c : c # DROPPED))

\* str.find for a set of characters: the first index holding one of them, 0 if none.
FindAny(str, cs) ==
    With(str, LAMBDA s :
        IF \E i \in 1..Len(s) : s[i] \in cs
        THEN CHOOSE i \in 1..Len(s) : s[i] \in cs /\ \A j \in 1..(i - 1) : s[j] \notin cs
        ELSE 0)

RECURSIVE LStrip(_)
LStrip(str) ==
    With(str, LAMBDA s : IF s # <<>> /\ Head(s) \in Whitespace THEN LStrip(Tail(s)) ELSE s)

RECURSIVE RStrip(_)
RStrip(str) ==
    With(str, LAMBDA s :
        IF s # <<>> /\ s[Len(s)] \in Whitespace THEN RStrip(SubSeq(s, 1, Len(s) - 1)) ELSE s)

\* str.strip()
Strip(s) == RStrip(LStrip(s))

\* str.startswith
StartsWith(str, prefix) ==
    With(str, LAMBDA s : With(prefix, LAMBDA p :
        Len(s) >= Len(p) /\ SubSeq(s, 1, Len(p)) = p))

\* the `in` operator on strings
Contains(str, part) ==
    With(str, LAMBDA s : With(part, LAMBDA p :
        \E i \in 0..(Len(s) - Len(p)) : SubSeq(s, i + 1, i + Len(p)) = p))

RECURSIVE SplitOn(_, _)
\* str.split(sep) for a one-character separator: empty parts are kept.
SplitOn(str, c) ==
    With(str, LAMBDA s : With(FindAny(s, {c}), LAMBDA i :
        IF i = 0 THEN <<s>>
        ELSE <<SubSeq(s, 1, i - 1)>> \o SplitOn(SubSeq(s, i + 1, Len(s)), c)))

RECURSIVE SplitWS(_)
\* str.split(): the maximal runs of characters that are not whitespace.
SplitWS(str) ==
    With(LStrip(str), LAMBDA t : With(FindAny(t, Whitespace), LAMBDA i :
        IF t = <<>> THEN <<>>
        ELSE IF i = 0 THEN <<t>>
        ELSE <<SubSeq(t, 1, i - 1)>> \o SplitWS(SubSeq(t, i + 1, Len(t)))))

ESCAPED_CR == <<"#", "0", "1", "5">>

\* str.replace('#015', '\r'): every occurrence, none of which overlaps another.
ReplaceEscapedCR(str) ==
    With(str, LAMBDA s :
        With({i \in 1..Len(s) : StartsWith(SubSeq(s, i, Len(s)), ESCAPED_CR)}, LAMBDA at :
            SelectSeq([i \in 1..Len(s) |->
                          IF i \in at THEN CR
                          ELSE IF \E j \in at : j < i /\ i < j + Len(ESCAPED_CR) THEN DROPPED
                          ELSE s[i]],
                      LAMBDA c : c # DROPPED)))


\* ------------------------------------------------------------- transport

VARIABLES
    is_open,      \* serial_conn.is_open
    rx,           \* the bytes waiting in the port's input buffer (in_waiting = Len(rx))
    tx,           \* the commands written to the port, in order
    wire,         \* the chunks of bytes the bus may deliver in this run
    budget,       \* how many more chunks the bus will deliver
    ioFails       \* whether calls on the open port may raise in this run

VARIABLES
    q_pc,         \* query_state and query_name: where each caller is in it
    q_attempts,   \* query_state: attempts
    q_buffer,     \* query_state: buffer
    q_elapsed,    \* query_state: time.time() - start_time, in ticks, up to the timeout
    q_waiting,    \* query_state: waiting
    q_result,     \* query_state: the value returned
    q_writes,     \* the number of calls of serial_conn.write made by query_state
    q_seen,       \* history: the text read so far in the current attempt
    q_since_write \* history: the ticks passed since the command of the attempt was
                  \* written, up to the timeout

VARIABLES
    l_pc,         \* listen_for_updates: where the listener thread is
    serial_lock,  \* _serial_lock: the thread holding it, or FREE
    l_buffer,     \* listen_for_updates: buffer
    l_waiting,    \* listen_for_updates: waiting
    l_msgs,       \* listen_for_updates: the messages of the current raw line not yet dispatched
    l_since_date, \* now - last_time_sent, in ticks, up to the interval
    l_date_log,   \* history: the readings of the clock (the ticks left) at which the
                  \* loop wrote a date command
    l_timer,      \* the ticks slept in time.sleep(1)
    dispatched,   \* history: the messages handed to _dispatch_message, in order
    l_bytes,      \* history: the bytes the listener has read
    l_text,       \* history: the text the listener has appended to its buffer
    l_raised      \* history: whether the except branch of the loop has run

VARIABLES
    s_pc,         \* _stop_cover: where the cover-stop thread is
    s_position,   \* _stop_cover: position
    open_ticks    \* how many more ticks pass before the run is over or the port closed

VARIABLES
    g_pc,         \* login: where the calling thread is in it
    g_attempts,   \* login: attempts
    g_buffer,     \* login: buffer
    g_waiting,    \* login: waiting
    g_elapsed,    \* login: time.time() - start_time, in ticks
    g_quiet,      \* login: time.time() - last_data_time, in ticks
    g_drain,      \* login: time.time() - phase2_start, in ticks
    g_result,     \* login: the value returned
    g_writes,     \* the number of calls of serial_conn.write made by login
    g_seen        \* history: the text read so far in the current attempt

VARIABLES
    l_reports,    \* history: the errors _dispatch_message handed to report_error_state
    l_log         \* history: the messages _dispatch_message logged as not processed

VARIABLES
    state_lock,   \* app_state.lock: the thread holding it, or FREE
    hvac_states,  \* app_state.hvac_states: the record of each HVAC id
    h_pc,         \* hvac.handle_set_command: where the MQTT thread is in it
    h_setting,    \* hvac.handle_set_command: setting_type
    h_payload,    \* hvac.handle_set_command: payload
    h_locals,     \* hvac.handle_set_command: heating_setpoint, cooling_setpoint, fan_state, mode
    h_before,     \* history: the record handle_set_command found in its first critical section
    u_pc,         \* hvac.process_update: where its calling thread is in it
    u_parts,      \* hvac.process_update: message_parts
    u_written     \* history: the fields process_update wrote since the first critical
                  \* section of handle_set_command

VARIABLES
    bypass_states, \* app_state.bypass_states
    b_pc,          \* handle_bypass_command: where the MQTT thread is in it
    b_zone,        \* handle_bypass_command: zone_id
    b_payload,     \* handle_bypass_command: payload
    b_before,      \* history: app_state.bypass_states when the with block was entered
    b_command,     \* history: the state handed to send_command
    b_success,     \* history: what send_command returned (`success`)
    b2_pc,         \* a second thread in handle_bypass_command: where it is
    b2_zone,       \* the second thread: zone_id
    b2_payload,    \* the second thread: payload
    b2_states,     \* the second thread: zone_bypass_states
    b_reported,    \* history: the bypass string of the last report of the bus
    b_published    \* the bypass states last published to MQTT, zone by zone

VARIABLES
    z_pc,         \* process_zone_update: where the listener is in it
    z_states,     \* process_zone_update: zone_states
    z_invert,     \* config.zones_normal_as_off
    z_published   \* the states published to cardio2e/zone/state/<zone_id>, in order

VARIABLES
    c_pc,         \* send_command: where the caller is
    c_args,       \* send_command: its arguments
    c_result,     \* send_command: the value returned
    c_writes,     \* the number of calls of serial_conn.write made by send_command
    c_completed   \* history: the port calls of send_command that returned

VARIABLES
    o_pc,         \* logout: where the shutdown handler is in it
    o_result,     \* logout: the value returned
    o_writes      \* the number of calls of serial_conn.write made by logout

VARIABLES
    a_message,    \* the @I state announcement the two handlers are given
    a_config,     \* config: dimmer_lights and zones_normal_as_off
    a_states,     \* app_state before the handlers: hvac_states and bypass_states
    a_login,      \* what the login-time handler published and stored, once it ran
    a_listener    \* what the listener-time handler published and stored, once it ran

\* The threads that call query_state: the listener (the bypass re-query of
\* _dispatch_message) and the cover-stop thread (_stop_cover).
Threads == {"listener", "stop"}

\* The callers of the two queries: the threads, and the login ("name"), which
\* calls query_name through get_name_fn for an entity it has found.
Callers == Threads \cup {"name"}

\* The entity each caller queries: bypass 1 from the listener, cover 1 from
\* _stop_cover, the name of light 1 from the login.
EntityType(t) == IF t = "listener" THEN "B" ELSE IF t = "name" THEN "L" ELSE "C"
EntityId(t) == "1"

\* query_state's defaults; the time unit of Tick is half a second.
QUERY_TIMEOUT == 1
QUERY_MAX_RETRIES == 5

\* query_name's defaults: ten seconds, three attempts.
NAME_TIMEOUT == 20
NAME_MAX_RETRIES == 3

\* timeout and max_retries of the call a caller makes
Timeout(t) == IF t = "name" THEN NAME_TIMEOUT ELSE QUERY_TIMEOUT
MaxRetries(t) == IF t = "name" THEN NAME_MAX_RETRIES ELSE QUERY_MAX_RETRIES

\* f"@G {entity_type} {entity_id}\r" (zone queries, which address id 1, are not
\* modelled), and f"@G N {entity_type} {entity_id}\r" of query_name
QueryCommand(t) ==
    IF t = "name" THEN <<"@", "G", SP, "N", SP, EntityType(t), SP, EntityId(t), CR>>
    ELSE <<"@", "G", SP, EntityType(t), SP, EntityId(t), CR>>

\* f"@I {entity_type} ", and f"@I N {entity_type}" of query_name
ExpectedPrefix(t) ==
    IF t = "name" THEN <<"@", "I", SP, "N", SP, EntityType(t)>>
    ELSE <<"@", "I", SP, EntityType(t), SP>>

\* A call on the port raises when the port is closed, and may raise in a faulty run.
MayRaise == ~is_open \/ ioFails
MaySucceed == is_open

\* serial_conn.read(n): at most n of the waiting bytes.
ReadBytes(n) == SubSeq(rx, 1, IF n < Len(rx) THEN n ELSE Len(rx))
RestBytes(n) == SubSeq(rx, (IF n < Len(rx) THEN n ELSE Len(rx)) + 1, Len(rx))

\* One pass of `for terminator in ("\r", "\n")`: the buffer is cut at the first
\* occurrence of the terminator and the part before it is the line.
ScanTerminator(buffer, term, prefix) ==
    With(buffer, LAMBDA buf : With(FindAny(buf, {term}), LAMBDA i :
        IF i = 0 THEN [hit |-> FALSE, line |-> <<>>, buffer |-> buf]
        ELSE With(Strip(SubSeq(buf, 1, i - 1)), LAMBDA line :
                 [hit |-> StartsWith(line, prefix), line |-> line,
                  buffer |-> SubSeq(buf, i + 1, Len(buf))])))

\* The scan query_state makes after each read: one pass for CR, then one for LF.
ScanBuffer(buf, prefix) ==
    With(ScanTerminator(buf, CR, prefix), LAMBDA a :
        IF a.hit THEN a ELSE ScanTerminator(a.buffer, LF, prefix))

RECURSIVE LStripTerminators(_)
\* str.lstrip("\r\n")
LStripTerminators(str) ==
    With(str, LAMBDA s :
        IF s # <<>> /\ Head(s) \in Terminators THEN LStripTerminators(Tail(s)) ELSE s)

RECURSIVE ScanLines(_, _)
\* The scan query_name makes after each read: every complete line of the
\* buffer is cut off, up to the first that begins with the prefix.
ScanLines(buffer, prefix) ==
    With(buffer, LAMBDA buf : With(FindAny(buf, Terminators), LAMBDA pos :
        IF pos = 0 THEN [hit |-> FALSE, line |-> <<>>, buffer |-> buf]
        ELSE With(Strip(SubSeq(buf, 1, pos - 1)), LAMBDA line :
             With(LStripTerminators(SubSeq(buf, pos + 1, Len(buf))), LAMBDA rest :
                 IF StartsWith(line, prefix)
                 THEN [hit |-> TRUE, line |-> line, buffer |-> rest]
                 ELSE ScanLines(rest, prefix)))))

\* The scan of the call a caller makes.
Scan(t, buf) ==
    IF t = "name" THEN ScanLines(buf, ExpectedPrefix(t)) ELSE ScanBuffer(buf, ExpectedPrefix(t))

\* entity_name of query_name: what follows the prefix in the line, stripped, up
\* to the first "@", stripped.
EntityName(line, prefix) ==
    Strip(Head(SplitOn(Strip(SubSeq(line, Len(prefix) + 1, Len(line))), "@")))

\* What the call returns for the line that matched: line.split() from
\* query_state, entity_name from query_name.
Answer(t, line) ==
    IF t = "name" THEN EntityName(line, ExpectedPrefix(t)) ELSE SplitWS(line)

transportVars == <<is_open, rx, tx, wire, budget, ioFails>>
queryVars == <<q_pc, q_attempts, q_buffer, q_elapsed, q_waiting, q_result, q_writes, q_seen,
               q_since_write>>
listenerVars == <<l_pc, serial_lock, l_buffer, l_waiting, l_msgs, l_since_date, l_date_log, l_timer,
                  dispatched, l_bytes, l_text, l_raised, l_reports, l_log>>
stopVars == <<s_pc, s_position>>
loginVars == <<g_pc, g_attempts, g_buffer, g_waiting, g_elapsed, g_quiet, g_drain, g_result,
               g_writes, g_seen>>
hvacVars == <<state_lock, hvac_states, h_pc, h_setting, h_payload, h_locals, h_before, u_pc,
              u_parts,
              u_written>>
bypassVars == <<bypass_states, b_pc, b_zone, b_payload, b_before, b_command, b_success,
               b2_pc, b2_zone, b2_payload, b2_states, b_reported,
                b_published>>
zoneVars == <<z_pc, z_states, z_invert, z_published>>
encoderVars == <<c_pc, c_args, c_result, c_writes, c_completed>>
logoutVars == <<o_pc, o_result, o_writes>>
announceVars == <<a_message, a_config, a_states, a_login, a_listener>>
\* The state of the MQTT command handlers and of the handlers of the listener.
appVars == <<hvacVars, bypassVars, zoneVars, encoderVars, logoutVars, announceVars>>
\* What query_state leaves alone.
otherVars == <<listenerVars, stopVars, loginVars, open_ticks, appVars>>

\* A loop that gives up one attempt early.
QFailAttemptEarly(t) ==
    /\ q_attempts' = [q_attempts EXCEPT ![t] = @ + 1]
    /\ IF q_attempts[t] + 1 < QUERY_MAX_RETRIES - 1
       THEN /\ q_pc' = [q_pc EXCEPT ![t] = "write"]
            /\ q_result' = q_result
       ELSE /\ q_pc' = [q_pc EXCEPT ![t] = "done"]
            /\ q_result' = [q_result EXCEPT ![t] = NONE]

\* `attempts += 1` and the test of `while attempts < max_retries`.
QFailAttempt(t) ==
    /\ q_attempts' = [q_attempts EXCEPT ![t] = @ + 1]
    /\ IF q_attempts[t] + 1 < MaxRetries(t)
       THEN /\ q_pc' = [q_pc EXCEPT ![t] = "write"]
            /\ q_result' = q_result
       ELSE /\ q_pc' = [q_pc EXCEPT ![t] = "done"]
            /\ q_result' = [q_result EXCEPT ![t] = NONE]

\* serial_conn.write(command.encode()), then start_time and buffer are set.
QWrite(t) ==
    /\ q_pc[t] = "write"
    /\ q_writes' = [q_writes EXCEPT ![t] = @ + 1]
    /\ \/ /\ MaySucceed
          /\ tx' = Append(tx, QueryCommand(t))
          /\ q_pc' = [q_pc EXCEPT ![t] = "poll"]
          /\ q_elapsed' = [q_elapsed EXCEPT ![t] = 0]
          /\ q_since_write' = [q_since_write EXCEPT ![t] = 0]
          /\ q_buffer' = [q_buffer EXCEPT ![t] = <<>>]
          /\ q_seen' = [q_seen EXCEPT ![t] = <<>>]
          /\ UNCHANGED <<q_attempts, q_result>>
       \/ /\ MayRaise
          /\ QFailAttempt(t)
          /\ UNCHANGED <<tx, q_elapsed, q_since_write, q_buffer, q_seen>>
    /\ UNCHANGED <<is_open, rx, wire, budget, ioFails, q_waiting, otherVars>>

\* The test of the inner while and `waiting = serial_conn.in_waiting`.
QPoll(t) ==
    /\ q_pc[t] = "poll"
    /\ IF q_elapsed[t] < Timeout(t)
       THEN \/ /\ MaySucceed
               /\ q_waiting' = [q_waiting EXCEPT ![t] = Len(rx)]
               /\ q_pc' = [q_pc EXCEPT ![t] = IF Len(rx) > 0 THEN "read" ELSE "sleep"]
               /\ UNCHANGED <<q_attempts, q_result>>
            \/ /\ MayRaise
               /\ QFailAttempt(t)
               /\ UNCHANGED q_waiting
       ELSE /\ QFailAttempt(t)
            /\ UNCHANGED q_waiting
    /\ UNCHANGED <<transportVars, q_buffer, q_elapsed, q_since_write, q_writes, q_seen, otherVars>>

\* A read that starts the deadline anew when no line of it matches.
QReadResetting(t) ==
    /\ q_pc[t] = "read"
    /\ \/ /\ MaySucceed
          /\ \E text \in {Decode(ReadBytes(q_waiting[t]))} :
             \E scan \in {Scan(t, q_buffer[t] \o text)} :
                 /\ rx' = RestBytes(q_waiting[t])
                 /\ q_seen' = [q_seen EXCEPT ![t] = @ \o text]
                 /\ q_buffer' = [q_buffer EXCEPT ![t] = scan.buffer]
                 /\ IF scan.hit
                    THEN /\ q_result' = [q_result EXCEPT ![t] = Answer(t, scan.line)]
                         /\ q_pc' = [q_pc EXCEPT ![t] = "done"]
                         /\ UNCHANGED q_elapsed
                    ELSE /\ q_pc' = [q_pc EXCEPT ![t] = "poll"]
                         /\ q_elapsed' = [q_elapsed EXCEPT ![t] = 0]
                         /\ UNCHANGED q_result
          /\ UNCHANGED q_attempts
       \/ /\ MayRaise
          /\ QFailAttempt(t)
          /\ UNCHANGED <<rx, q_buffer, q_seen, q_elapsed>>
    /\ UNCHANGED <<is_open, tx, wire, budget, ioFails, q_since_write, q_waiting, q_writes,
                   otherVars>>

\* `buffer += serial_conn.read(waiting).decode(errors="ignore")` and the scan.
QRead(t) ==
    /\ q_pc[t] = "read"
    /\ \/ /\ MaySucceed
          /\ \E text \in {Decode(ReadBytes(q_waiting[t]))} :
             \E scan \in {Scan(t, q_buffer[t] \o text)} :
                 /\ rx' = RestBytes(q_waiting[t])
                 /\ q_seen' = [q_seen EXCEPT ![t] = @ \o text]
                 /\ q_buffer' = [q_buffer EXCEPT ![t] = scan.buffer]
                 /\ IF scan.hit
                    THEN /\ q_result' = [q_result EXCEPT ![t] = Answer(t, scan.line)]
                         /\ q_pc' = [q_pc EXCEPT ![t] = "done"]
                    ELSE /\ q_pc' = [q_pc EXCEPT ![t] = "poll"]
                         /\ UNCHANGED q_result
          /\ UNCHANGED q_attempts
       \/ /\ MayRaise
          /\ QFailAttempt(t)
          /\ UNCHANGED <<rx, q_buffer, q_seen>>
    /\ UNCHANGED <<is_open, tx, wire, budget, ioFails, q_elapsed, q_since_write, q_waiting, q_writes,
                   otherVars>>

\* time.sleep(0.005) returns.
QWake(t) ==
    /\ q_pc[t] = "sleep"
    /\ q_pc' = [q_pc EXCEPT ![t] = "poll"]
    /\ UNCHANGED <<transportVars, q_attempts, q_buffer, q_elapsed, q_since_write, q_waiting, q_result,
                   q_writes, q_seen, otherVars>>

QInAttempt(t) == q_pc[t] \in {"poll", "read", "sleep"}

\* Half a second passes for a thread inside query_state.
QTimePasses ==
    /\ q_elapsed' = [t \in Callers |->
                       IF QInAttempt(t) /\ q_elapsed[t] < Timeout(t)
                       THEN q_elapsed[t] + 1 ELSE q_elapsed[t]]
    /\ q_since_write' = [t \in Callers |->
                           IF QInAttempt(t) /\ q_since_write[t] < Timeout(t)
                           THEN q_since_write[t] + 1 ELSE q_since_write[t]]

\* The bus delivers one chunk of bytes to the port.
Deliver ==
    /\ is_open
    /\ budget > 0
    /\ \E c \in wire : rx' = rx \o c
    /\ budget' = budget - 1
    /\ UNCHANGED <<is_open, tx, wire, ioFails, queryVars, otherVars>>

\* -------------------------------------------------------------- listener


\* config.update_date_interval, in ticks (the configured value; the default is an hour)
UPDATE_DATE_INTERVAL == 2
\* time.sleep(1) of the except branch, in ticks of half a second
ERROR_BACKOFF == 2

\* send_date: f"@S D {time_command}\r", the timestamp abstracted to one character
DateCommand == <<"@", "S", SP, "D", SP, "t", CR>>

Digits == {"0", "1", "2", "3", "4", "5", "6", "7", "8", "9"}
\* Whether int(token) returns (it raises ValueError otherwise).
IsInt(token) ==
    With(token, LAMBDA tok : tok # <<>> /\ \A i \in 1..Len(tok) : tok[i] \in Digits)

\* `"\r" in buffer or "\n" in buffer`
HasTerminator(buf) == FindAny(buf, Terminators) # 0

\* One turn of the framing loop: the raw line before the earliest terminator,
\* stripped, and the rest of the buffer less one directly following terminator.
CutLine(buffer) ==
    With(buffer, LAMBDA buf : With(FindAny(buf, Terminators), LAMBDA pos :
        With(SubSeq(buf, pos + 1, Len(buf)), LAMBDA rest :
            [line |-> Strip(SubSeq(buf, 1, pos - 1)),
             rest |-> IF rest # <<>> /\ Head(rest) \in Terminators
                      THEN Tail(rest) ELSE rest])))

RECURSIVE SplitParts(_)
\* `for part in split('@'): messages.extend(part.split('\r'))`
SplitParts(split) ==
    With(split, LAMBDA parts :
        IF parts = <<>> THEN <<>>
        ELSE SplitOn(Head(parts), CR) \o SplitParts(Tail(parts)))

RECURSIVE MarkMessages(_)
\* `if not msg: continue` and `msg = '@' + msg.strip()`
MarkMessages(messages) ==
    With(messages, LAMBDA frags :
        IF frags = <<>> THEN <<>>
        ELSE IF Head(frags) = <<>> THEN MarkMessages(Tail(frags))
        ELSE <<(<<"@">> \o Strip(Head(frags)))>> \o MarkMessages(Tail(frags)))

\* The messages of one raw line, as they are handed to _dispatch_message.
LineMessages(line) == MarkMessages(SplitParts(SplitOn(ReplaceEscapedCR(line), "@")))

RECURSIVE FrameAll(_)
\* The messages the framing loop extracts from a buffer when no dispatch raises.
FrameAll(buf) ==
    IF ~HasTerminator(buf) THEN <<>>
    ELSE LET cut == CutLine(buf)
         IN  (IF cut.line = <<>> THEN <<>> ELSE LineMessages(cut.line)) \o FrameAll(cut.rest)

DigitChars == <<"0", "1", "2", "3", "4", "5", "6", "7", "8", "9">>

RECURSIVE ParseInt(_)
\* int(str) of a text of digits.
ParseInt(str) ==
    IF str = <<>> THEN 0
    ELSE 10 * ParseInt(SubSeq(str, 1, Len(str) - 1))
         + (CHOOSE d \in 0..9 : DigitChars[d + 1] = str[Len(str)])

\* A lock that makes the thread that holds it wait as well (threading.Lock).
MayEnterPlain(thread) == state_lock = FREE

\* `self._lock = threading.RLock()`: a thread enters `with self._lock` when no
\* other thread holds the lock; the thread that holds it enters again at once.
MayEnter(thread) == state_lock \in {FREE, thread}

\* A dispatcher that answers every acknowledgment of three tokens with the
\* re-query.
DispatchOutcomeAnyAck(message_parts) ==
    With(message_parts, LAMBDA parts :
        IF Len(parts) = 3 /\ parts[1] = <<"@", "A">>
        THEN IF ~IsInt(parts[3]) THEN "raise" ELSE "requery"
        ELSE "ok")

\* What _dispatch_message does with a message, as far as the loop is concerned:
\* "requery" (the bypass re-query), "raise" (an exception of a handler) or "ok".
DispatchOutcome(message_parts) ==
    With(message_parts, LAMBDA parts :
        IF Len(parts) = 2 /\ parts[1] = <<"@", "A">> THEN "ok"
        ELSE IF Len(parts) = 3 /\ parts[1] = <<"@", "A">>
             THEN IF ~IsInt(parts[3]) THEN "raise"
                  ELSE IF parts[2] = <<"B">> /\ ParseInt(parts[3]) = 1 THEN "requery"
                  ELSE "ok"
        ELSE IF Len(parts) >= 3 /\ parts[1] = <<"@", "N">>
             THEN IF Len(parts) = 3 THEN "raise" ELSE "ok"
        ELSE IF Len(parts) >= 4 /\ parts[1] = <<"@", "I">>
             THEN IF parts[2] = <<"L">>
                  THEN IF IsInt(parts[3]) /\ IsInt(parts[4]) THEN "ok" ELSE "raise"
                  ELSE IF parts[2] \in {<<"R">>, <<"H">>} THEN "raise"
                  ELSE IF parts[2] \in {<<"C">>, <<"S">>}
                       THEN IF IsInt(parts[3]) THEN "ok" ELSE "raise"
                  ELSE "ok"
        ELSE "ok")

\* A read that overwrites the buffer instead of extending it.
AppendReadOverwrite(buf, raw) == raw

\* `buffer += raw`
AppendRead(buf, raw) == buf \o raw

\* An except branch that leaves the loop.
LRaiseAndLeave ==
    /\ l_pc' = "returned"
    /\ l_timer' = 0
    /\ l_raised' = TRUE
    /\ l_msgs' = <<>>

\* The except branch of the loop: increment_errors() and time.sleep(1) begin.
LRaise ==
    /\ l_pc' = "backoff"
    /\ l_timer' = 0
    /\ l_raised' = TRUE
    /\ l_msgs' = <<>>

\* A loop that never looks at the port.
PortNeverObservedClosed == FALSE

\* `if not serial_conn.is_open`
PortObservedClosed == ~is_open

\* The top of `while True`: the is_open test, then the test of the date interval.
LTop ==
    /\ l_pc = "top"
    /\ l_pc' = IF PortObservedClosed THEN "returned"
               ELSE IF l_since_date >= UPDATE_DATE_INTERVAL THEN "date" ELSE "lock"
    /\ UNCHANGED <<stopVars, loginVars, open_ticks, appVars, transportVars, queryVars, serial_lock, l_buffer, l_waiting, l_msgs,
                   l_since_date, l_date_log, l_timer, dispatched, l_reports, l_log, l_bytes, l_text, l_raised>>

\* A date step that leaves the interval timer running.
LDateNoReset ==
    /\ l_pc = "date"
    /\ \/ /\ MaySucceed
          /\ tx' = Append(tx, DateCommand)
          /\ l_date_log' = Append(l_date_log, open_ticks)
       \/ /\ MayRaise
          /\ UNCHANGED <<tx, l_date_log>>
    /\ \/ /\ l_pc' = "lock"
          /\ UNCHANGED <<l_since_date, l_timer, l_raised, l_msgs>>
       \/ /\ ioFails
          /\ LRaise
          /\ UNCHANGED l_since_date
    /\ UNCHANGED <<stopVars, loginVars, open_ticks, appVars, is_open, rx, wire, budget, ioFails, queryVars, serial_lock, l_buffer,
                   l_waiting, dispatched, l_reports, l_log, l_bytes, l_text>>

\* send_date (send_command swallows a failed write), report_error_state, and
\* `last_time_sent = now`; the MQTT publication may raise in a faulty run. The
\* statements from `now = time.monotonic()` to here take less than a tick, so
\* that `now` is the moment of this step.
LDate ==
    /\ l_pc = "date"
    /\ \/ /\ MaySucceed
          /\ tx' = Append(tx, DateCommand)
          /\ l_date_log' = Append(l_date_log, open_ticks)
       \/ /\ MayRaise
          /\ UNCHANGED <<tx, l_date_log>>
    /\ \/ /\ l_pc' = "lock"
          /\ l_since_date' = 0
          /\ UNCHANGED <<l_timer, l_raised, l_msgs>>
       \/ /\ ioFails
          /\ LRaise
          /\ UNCHANGED l_since_date
    /\ UNCHANGED <<stopVars, loginVars, open_ticks, appVars, is_open, rx, wire, budget, ioFails, queryVars, serial_lock, l_buffer,
                   l_waiting, dispatched, l_reports, l_log, l_bytes, l_text>>

\* `with _serial_lock:` is entered.
LAcquire ==
    /\ l_pc = "lock"
    /\ serial_lock = FREE
    /\ serial_lock' = "listener"
    /\ l_pc' = "waiting"
    /\ UNCHANGED <<stopVars, loginVars, open_ticks, appVars, transportVars, queryVars, l_buffer, l_waiting, l_msgs, l_since_date, l_date_log,
                   l_timer, dispatched, l_reports, l_log, l_bytes, l_text, l_raised>>

\* `waiting = serial_conn.in_waiting`; with nothing waiting the lock is released
\* and the idle sleep begins.
LInWaiting ==
    /\ l_pc = "waiting"
    /\ \/ /\ MaySucceed
          /\ l_waiting' = Len(rx)
          /\ IF Len(rx) > 0
             THEN l_pc' = "read" /\ UNCHANGED serial_lock
             ELSE l_pc' = "idle" /\ serial_lock' = FREE
          /\ UNCHANGED <<l_timer, l_raised, l_msgs>>
       \/ /\ MayRaise
          /\ serial_lock' = FREE
          /\ LRaise
          /\ UNCHANGED l_waiting
    /\ UNCHANGED <<stopVars, loginVars, open_ticks, appVars, transportVars, queryVars, l_buffer, l_since_date, l_date_log, dispatched, l_reports, l_log, l_bytes,
                   l_text>>

\* A read step that releases the lock only when read returned.
LReadLeaking ==
    /\ l_pc = "read"
    /\ \/ /\ MaySucceed
          /\ serial_lock' = FREE
          /\ \E raw \in {Decode(ReadBytes(l_waiting))} :
                 /\ l_buffer' = AppendRead(l_buffer, raw)
                 /\ l_text' = l_text \o raw
          /\ l_bytes' = l_bytes \o ReadBytes(l_waiting)
          /\ rx' = RestBytes(l_waiting)
          /\ l_pc' = "frame"
          /\ UNCHANGED <<l_timer, l_raised, l_msgs>>
       \/ /\ MayRaise
          /\ LRaise
          /\ UNCHANGED serial_lock
          /\ UNCHANGED <<rx, l_buffer, l_bytes, l_text>>
    /\ UNCHANGED <<stopVars, loginVars, open_ticks, appVars, is_open, tx, wire, budget, ioFails, queryVars, l_waiting, l_since_date, l_date_log,
                   dispatched, l_reports, l_log>>

\* `raw = serial_conn.read(waiting).decode(errors="ignore")`, `buffer += raw`,
\* and the lock is released.
LRead ==
    /\ l_pc = "read"
    /\ serial_lock' = FREE
    /\ \/ /\ MaySucceed
          /\ \E raw \in {Decode(ReadBytes(l_waiting))} :
                 /\ l_buffer' = AppendRead(l_buffer, raw)
                 /\ l_text' = l_text \o raw
          /\ l_bytes' = l_bytes \o ReadBytes(l_waiting)
          /\ rx' = RestBytes(l_waiting)
          /\ l_pc' = "frame"
          /\ UNCHANGED <<l_timer, l_raised, l_msgs>>
       \/ /\ MayRaise
          /\ LRaise
          /\ UNCHANGED <<rx, l_buffer, l_bytes, l_text>>
    /\ UNCHANGED <<stopVars, loginVars, open_ticks, appVars, is_open, tx, wire, budget, ioFails, queryVars, l_waiting, l_since_date, l_date_log,
                   dispatched, l_reports, l_log>>

\* One turn of `while "\r" in buffer or "\n" in buffer`, up to the list of messages.
LFrame ==
    /\ l_pc = "frame"
    /\ IF HasTerminator(l_buffer)
       THEN \E cut \in {CutLine(l_buffer)} :
                /\ l_buffer' = cut.rest
                /\ IF cut.line = <<>>
                   THEN l_pc' = "frame" /\ l_msgs' = <<>>
                   ELSE l_pc' = "dispatch" /\ l_msgs' = LineMessages(cut.line)
       ELSE /\ l_pc' = "top"
            /\ UNCHANGED <<l_buffer, l_msgs>>
    /\ UNCHANGED <<stopVars, loginVars, open_ticks, appVars, transportVars, queryVars, serial_lock, l_waiting, l_since_date, l_date_log, l_timer,
                   dispatched, l_reports, l_log, l_bytes, l_text, l_raised>>

\* ERROR_CODES: the descriptions of the codes of an @N message.
ERROR_CODES ==
    (<<"1">> :> "Object type specified by the transaction is not recognized") @@
    (<<"2">> :> "Object number is out of range for the object type specified") @@
    (<<"3">> :> "One or more parameters are not valid") @@
    (<<"4">> :> "Security code is not valid") @@
    (<<"5">> :> "Transaction S (Set) not supported for the requested type of object") @@
    (<<"6">> :> "Transaction G (Get) not supported for the requested type of object") @@
    (<<"7">> :> "Transaction is refused because security is armed") @@
    (<<"8">> :> "This zone can be ignored") @@
    (<<"1", "6">> :> "Security can not be armed because there are open zones") @@
    (<<"1", "7">> :> "Security can not be armed because there is a power problem") @@
    (<<"1", "8">> :> "Security can not be armed for an unknown reason")

\* `ERROR_CODES.get(error_code, f"Unknown error message ({error_code})")`; a
\* description of the table is kept as one symbol of the text.
ErrorDescription(error_code) ==
    IF error_code \in DOMAIN ERROR_CODES THEN <<ERROR_CODES[error_code]>>
    ELSE <<"Unknown error message (">> \o error_code \o <<")">>

\* format_error_message of a message of at least four tokens (with three,
\* message_parts[3] raises IndexError): f"{description}: {raw_msg}".
format_error_message(message_parts) ==
    ErrorDescription(message_parts[4]) \o <<":", SP, "@", "N", SP>> \o message_parts[2]
        \o <<SP>> \o message_parts[3] \o <<SP>> \o message_parts[4]

\* The type letters of the @I branch of _dispatch_message.
InfoTypes == {<<"L">>, <<"R">>, <<"C">>, <<"H">>, <<"T">>, <<"S">>, <<"Z">>, <<"B">>}

\* The errors _dispatch_message hands to report_error_state for a message: the
\* @N branch, as far as format_error_message returns.
DispatchReports(message_parts) ==
    With(message_parts, LAMBDA parts :
        IF /\ ~(Len(parts) \in {2, 3} /\ parts[1] = <<"@", "A">>)
           /\ Len(parts) >= 4 /\ parts[1] = <<"@", "N">>
        THEN <<format_error_message(parts)>> ELSE <<>>)

\* Whether _dispatch_message logs "Response not processed" for a message: the
\* two else branches.
DispatchLogs(message_parts) ==
    With(message_parts, LAMBDA parts :
        /\ ~(Len(parts) \in {2, 3} /\ parts[1] = <<"@", "A">>)
        /\ ~(Len(parts) >= 3 /\ parts[1] = <<"@", "N">>)
        /\ (Len(parts) >= 4 /\ parts[1] = <<"@", "I">>) => parts[2] \notin InfoTypes)

\* One turn of `for msg in messages`: increment_messages(), which takes the
\* state lock for the increment, and _dispatch_message.
LDispatch ==
    /\ l_pc = "dispatch"
    /\ l_msgs # <<>> => MayEnter("listener")
    /\ IF l_msgs = <<>>
       THEN /\ l_pc' = "frame"
            /\ UNCHANGED <<q_pc, q_attempts, q_writes, l_msgs, l_timer, l_raised, dispatched,
                           l_reports, l_log>>
       ELSE /\ dispatched' = Append(dispatched, Head(l_msgs))
            /\ \E message_parts \in {SplitWS(Head(l_msgs))} :
                   /\ l_reports' = l_reports \o DispatchReports(message_parts)
                   /\ l_log' = IF DispatchLogs(message_parts)
                               THEN Append(l_log, Head(l_msgs)) ELSE l_log
                   /\ \E outcome \in {DispatchOutcome(message_parts)} :
                          IF outcome = "raise"
                          THEN LRaise /\ UNCHANGED <<q_pc, q_attempts, q_writes>>
                          ELSE IF outcome = "requery"
                          THEN /\ l_pc' = "query"
                               /\ q_pc' = [q_pc EXCEPT !["listener"] = "write"]
                               /\ q_attempts' = [q_attempts EXCEPT !["listener"] = 0]
                               /\ q_writes' = [q_writes EXCEPT !["listener"] = 0]
                               /\ UNCHANGED <<l_msgs, l_timer, l_raised>>
                          ELSE /\ l_pc' = "dispatch"
                               /\ l_msgs' = Tail(l_msgs)
                               /\ UNCHANGED <<q_pc, q_attempts, q_writes, l_timer, l_raised>>
    /\ UNCHANGED <<stopVars, loginVars, open_ticks, appVars, transportVars, q_buffer, q_elapsed, q_since_write, q_waiting, q_result, q_seen,
                   serial_lock, l_buffer, l_waiting, l_since_date, l_date_log, l_bytes, l_text>>

\* query_state has returned to _get_entity_state, which publishes the bypass
\* states it got, and _dispatch_message returns.
LQueryReturn ==
    /\ l_pc = "query"
    /\ q_pc["listener"] = "done"
    /\ q_pc' = [q_pc EXCEPT !["listener"] = "idle"]
    /\ l_pc' = "dispatch"
    /\ l_msgs' = Tail(l_msgs)
    /\ UNCHANGED <<stopVars, loginVars, open_ticks, appVars, transportVars, q_attempts, q_buffer, q_elapsed, q_since_write, q_waiting, q_result,
                   q_writes, q_seen, serial_lock, l_buffer, l_waiting, l_since_date, l_date_log,
                   l_timer, dispatched, l_reports, l_log, l_bytes, l_text, l_raised>>

\* time.sleep(0.01) of an idle iteration returns.
LIdleWake ==
    /\ l_pc = "idle"
    /\ l_pc' = "top"
    /\ UNCHANGED <<stopVars, loginVars, open_ticks, appVars, transportVars, queryVars, serial_lock, l_buffer, l_waiting, l_msgs,
                   l_since_date, l_date_log, l_timer, dispatched, l_reports, l_log, l_bytes, l_text, l_raised>>

\* time.sleep(1) of the except branch returns.
LBackoffWake ==
    /\ l_pc = "backoff"
    /\ l_timer >= ERROR_BACKOFF
    /\ l_pc' = "top"
    /\ UNCHANGED <<stopVars, loginVars, open_ticks, appVars, transportVars, queryVars, serial_lock, l_buffer, l_waiting, l_msgs,
                   l_since_date, l_date_log, l_timer, dispatched, l_reports, l_log, l_bytes, l_text, l_raised>>

\* Half a second passes for the listener.
LTimePasses ==
    /\ l_since_date' = IF l_pc \notin {"off", "returned"} /\ l_since_date < UPDATE_DATE_INTERVAL
                       THEN l_since_date + 1 ELSE l_since_date
    /\ l_timer' = IF l_pc = "backoff" /\ l_timer < ERROR_BACKOFF
                  THEN l_timer + 1 ELSE l_timer

\* ------------------------------------------------------ cover stop thread


\* handle_command receives STOP for cover 1 and starts the thread, which calls
\* get_entity_state_fn and with it query_state.
StopCommand ==
    /\ s_pc = "idle"
    /\ s_pc' = "query"
    /\ q_pc' = [q_pc EXCEPT !["stop"] = "write"]
    /\ UNCHANGED <<transportVars, q_attempts, q_buffer, q_elapsed, q_since_write, q_waiting, q_result,
                   q_writes, q_seen, s_position, listenerVars, loginVars, open_ticks, appVars>>

\* The login calls get_name_fn for light 1, and with it query_name, once.
NameCall ==
    /\ q_pc["name"] = "idle"
    /\ q_pc' = [q_pc EXCEPT !["name"] = "write"]
    /\ UNCHANGED <<transportVars, q_attempts, q_buffer, q_elapsed, q_since_write, q_waiting,
                   q_result, q_writes, q_seen, otherVars>>

\* _get_entity_state's return value for a cover: message_parts[3], or None.
\* A query whose answer is never used.
NoPosition(parts) == NONE

CoverPosition(parts) == IF parts # NONE /\ Len(parts) >= 4 THEN parts[4] ELSE NONE

\* query_state has returned to the cover-stop thread.
StopQueryReturn ==
    /\ s_pc = "query"
    /\ q_pc["stop"] = "done"
    /\ s_position' = CoverPosition(q_result["stop"])
    /\ s_pc' = "send"
    /\ UNCHANGED <<transportVars, queryVars, listenerVars, loginVars, open_ticks, appVars>>

\* f"@S C {cover_id} {state}\r"
CoverCommand(position) == <<"@", "S", SP, "C", SP, "1", SP>> \o position \o <<CR>>

\* send_command(serial_conn, "C", cover_id, position), or 50 when the query failed;
\* a failed write is swallowed by send_command.
StopSend ==
    /\ s_pc = "send"
    /\ \/ /\ MaySucceed
          /\ tx' = Append(tx, CoverCommand(IF s_position = NONE THEN <<"5", "0">>
                                           ELSE s_position))
       \/ MayRaise /\ tx' = tx
    /\ s_pc' = "finished"
    /\ UNCHANGED <<is_open, rx, wire, budget, ioFails, queryVars, s_position, listenerVars, loginVars,
                   open_ticks, appVars>>



\* ------------------------------------------------------------------ login

\* The arguments of the call of login, in ticks of half a second for the times.
LOGIN_MAX_RETRIES == 2
LOGIN_TIMEOUT == 2
POST_ACK_TIMEOUT == 5
\* The silence that ends the drain: `time.time() - last_data_time > 1.0`, in ticks
QUIET_LIMIT == 2

\* f"@S P I {password}\r", the password abstracted to one character
LoginCommand == <<"@", "S", SP, "P", SP, "I", SP, "p", CR>>

SUCCESS_RESPONSE_PREFIX == <<"@", "A", SP, "P">>

\* A test that takes any answer for the acknowledgment.
AckOnAnyAnswer(buf) == buf # <<>>

\* `success_response_prefix in buffer`
AckReceived(buf) == Contains(buf, SUCCESS_RESPONSE_PREFIX)

\* A read that leaves the quiet timer running.
QuietKept(quiet) == quiet

\* `last_data_time = time.time()` after a read of the drain
QuietAfterRead(quiet) == 0

\* A loop that gives up one attempt early.
GFailAttemptEarly ==
    /\ g_attempts' = g_attempts + 1
    /\ IF g_attempts + 1 < LOGIN_MAX_RETRIES - 1
       THEN g_pc' = "write" /\ g_result' = g_result
       ELSE g_pc' = "done" /\ g_result' = NONE

\* `attempts += 1` and the test of `while attempts < max_retries`.
GFailAttempt ==
    /\ g_attempts' = g_attempts + 1
    /\ IF g_attempts + 1 < LOGIN_MAX_RETRIES
       THEN g_pc' = "write" /\ g_result' = g_result
       ELSE g_pc' = "done" /\ g_result' = NONE

\* What login leaves alone.
notLoginVars == <<queryVars, listenerVars, stopVars, open_ticks, appVars>>

\* main calls login(serial_conn, password).
LoginCall ==
    /\ g_pc = "idle"
    /\ g_pc' = "write"
    /\ UNCHANGED <<transportVars, g_attempts, g_buffer, g_waiting, g_elapsed, g_quiet,
                   g_drain, g_result, g_writes, g_seen, notLoginVars>>

\* serial_conn.write(command.encode()), then start_time, buffer and ack_received are set.
GWrite ==
    /\ g_pc = "write"
    /\ g_writes' = g_writes + 1
    /\ \/ /\ MaySucceed
          /\ tx' = Append(tx, LoginCommand)
          /\ g_pc' = "ack"
          /\ g_elapsed' = 0
          /\ g_buffer' = <<>>
          /\ g_seen' = <<>>
          /\ UNCHANGED <<g_attempts, g_result>>
       \/ /\ MayRaise
          /\ GFailAttempt
          /\ UNCHANGED <<tx, g_elapsed, g_buffer, g_seen>>
    /\ UNCHANGED <<is_open, rx, wire, budget, ioFails, g_waiting, g_quiet, g_drain,
                   notLoginVars>>

\* Phase 1: the test of the while and `waiting = serial_conn.in_waiting`; when the
\* time is up, `if not ack_received: attempts += 1; continue`.
GAckPoll ==
    /\ g_pc = "ack"
    /\ IF g_elapsed < LOGIN_TIMEOUT
       THEN \/ /\ MaySucceed
               /\ g_waiting' = Len(rx)
               /\ g_pc' = IF Len(rx) > 0 THEN "ackRead" ELSE "ackSleep"
               /\ UNCHANGED <<g_attempts, g_result>>
            \/ /\ MayRaise
               /\ GFailAttempt
               /\ UNCHANGED g_waiting
       ELSE /\ GFailAttempt
            /\ UNCHANGED g_waiting
    /\ UNCHANGED <<transportVars, g_buffer, g_elapsed, g_quiet, g_drain, g_writes, g_seen,
                   notLoginVars>>

\* Phase 1: `buffer += serial_conn.read(waiting).decode(errors="ignore")` and the
\* test for the acknowledgment; with it last_data_time and phase2_start are set.
GAckRead ==
    /\ g_pc = "ackRead"
    /\ \/ /\ MaySucceed
          /\ \E text \in {Decode(ReadBytes(g_waiting))} :
                 /\ g_buffer' = g_buffer \o text
                 /\ g_seen' = g_seen \o text
                 /\ IF AckReceived(g_buffer \o text)
                    THEN g_pc' = "drain" /\ g_quiet' = 0 /\ g_drain' = 0
                    ELSE g_pc' = "ack" /\ UNCHANGED <<g_quiet, g_drain>>
          /\ rx' = RestBytes(g_waiting)
          /\ UNCHANGED <<g_attempts, g_result>>
       \/ /\ MayRaise
          /\ GFailAttempt
          /\ UNCHANGED <<rx, g_buffer, g_seen, g_quiet, g_drain>>
    /\ UNCHANGED <<is_open, tx, wire, budget, ioFails, g_waiting, g_elapsed, g_writes,
                   notLoginVars>>

\* Phase 2: the test of the while, `waiting = serial_conn.in_waiting` and, with
\* nothing waiting, the test of the silence; `return buffer` when the drain is over.
GDrainPoll ==
    /\ g_pc = "drain"
    /\ IF g_drain < POST_ACK_TIMEOUT
       THEN \/ /\ MaySucceed
               /\ g_waiting' = Len(rx)
               /\ IF Len(rx) > 0
                  THEN g_pc' = "drainRead" /\ UNCHANGED g_result
                  ELSE IF g_quiet > QUIET_LIMIT
                       THEN g_pc' = "done" /\ g_result' = g_buffer
                       ELSE g_pc' = "drainSleep" /\ UNCHANGED g_result
               /\ UNCHANGED g_attempts
            \/ /\ MayRaise
               /\ GFailAttempt
               /\ UNCHANGED g_waiting
       ELSE /\ g_pc' = "done"
            /\ g_result' = g_buffer
            /\ UNCHANGED <<g_attempts, g_waiting>>
    /\ UNCHANGED <<transportVars, g_buffer, g_elapsed, g_quiet, g_drain, g_writes, g_seen,
                   notLoginVars>>

\* Phase 2: `buffer += serial_conn.read(waiting).decode(errors="ignore")` and
\* `last_data_time = time.time()`.
GDrainRead ==
    /\ g_pc = "drainRead"
    /\ \/ /\ MaySucceed
          /\ \E text \in {Decode(ReadBytes(g_waiting))} :
                 /\ g_buffer' = g_buffer \o text
                 /\ g_seen' = g_seen \o text
          /\ rx' = RestBytes(g_waiting)
          /\ g_quiet' = QuietAfterRead(g_quiet)
          /\ g_pc' = "drain"
          /\ UNCHANGED <<g_attempts, g_result>>
       \/ /\ MayRaise
          /\ GFailAttempt
          /\ UNCHANGED <<rx, g_buffer, g_seen, g_quiet>>
    /\ UNCHANGED <<is_open, tx, wire, budget, ioFails, g_waiting, g_elapsed, g_drain,
                   g_writes, notLoginVars>>

GSleeping == g_pc \in {"ackSleep", "drainSleep"}

\* time.sleep(0.01) returns within the tick in which it began.
GWake ==
    /\ GSleeping
    /\ g_pc' = IF g_pc = "ackSleep" THEN "ack" ELSE "drain"
    /\ UNCHANGED <<transportVars, g_attempts, g_buffer, g_waiting, g_elapsed, g_quiet,
                   g_drain, g_result, g_writes, g_seen, notLoginVars>>

\* Half a second has passed when time.sleep(0.01) returns: the calls and tests of
\* login take no time, its sleeps at most one tick.
LoginTick ==
    /\ GSleeping
    /\ g_pc' = IF g_pc = "ackSleep" THEN "ack" ELSE "drain"
    /\ g_elapsed' = IF g_pc = "ackSleep" THEN g_elapsed + 1 ELSE g_elapsed
    /\ g_quiet' = IF g_pc = "drainSleep" THEN g_quiet + 1 ELSE g_quiet
    /\ g_drain' = IF g_pc = "drainSleep" THEN g_drain + 1 ELSE g_drain
    /\ UNCHANGED <<transportVars, g_attempts, g_buffer, g_waiting, g_result, g_writes,
                   g_seen, notLoginVars>>

\* ---------------------------------------------------------- send_command

\* HVAC_MODE_TO_CODE
HVAC_MODE_TO_CODE ==
    ("auto" :> "A") @@ ("heat" :> "H") @@ ("cool" :> "C") @@ ("off" :> "O") @@
    ("economy" :> "E") @@ ("normal" :> "N")

\* FAN_STATE_TO_CODE
FAN_STATE_TO_CODE == ("on" :> "R") @@ ("off" :> "S")

\* A table used as it is.
NotInverted(table) == table

\* `{v: k for k, v in table.items()}`
Inverse(table) ==
    [v \in {table[k] : k \in DOMAIN table} |-> CHOOSE k \in DOMAIN table : table[k] = v]

\* dict.get(key, default)
Get(table, key, default) == IF key \in DOMAIN table THEN table[key] ELSE default

RECURSIVE FormatInt(_)
\* str(n) of an integer.
FormatInt(n) ==
    IF n < 0 THEN <<"-">> \o FormatInt(0 - n)
    ELSE IF n < 10 THEN <<DigitChars[n + 1]>>
    ELSE FormatInt(n \div 10) \o <<DigitChars[(n % 10) + 1]>>

\* str(x) of a float with one decimal, the float given in tenths: 20.0 is 200.
FormatFloat(tenths) ==
    IF tenths < 0 THEN <<"-">> \o FormatInt((0 - tenths) \div 10) \o <<".">>
                           \o FormatInt((0 - tenths) % 10)
    ELSE FormatInt(tenths \div 10) \o <<".">> \o FormatInt(tenths % 10)

\* The arguments of send_command are a record of the arguments given: an
\* argument left out, or given as None, is no field of the record.

\* A test of the setpoints alone.
HvacSetpointsMissing(args) ==
    {"heating_setpoint", "cooling_setpoint"} \ DOMAIN args # {}

\* `heating_setpoint is None or cooling_setpoint is None or fan_state is None
\* or mode is None`
HvacFieldsMissing(args) ==
    {"heating_setpoint", "cooling_setpoint", "fan_state", "mode"} \ DOMAIN args # {}

\* f"{setpoint}" of a setpoint argument: str of the float, or of None.
FormatSetpoint(args, name) ==
    IF name \in DOMAIN args THEN FormatFloat(args[name]) ELSE <<"N", "o", "n", "e">>

\* table.get(argument, default), the argument possibly None.
CodeOf(table, args, name, default) ==
    IF name \in DOMAIN args THEN Get(table, args[name], default) ELSE default

\* The command send_command builds for an HVAC.
HvacCommand(args) ==
    <<"@", "S", SP, "H", SP>> \o FormatInt(args.entity_id) \o <<SP>>
        \o FormatSetpoint(args, "heating_setpoint") \o <<SP>>
        \o FormatSetpoint(args, "cooling_setpoint") \o <<SP>>
        \o <<CodeOf(FAN_STATE_TO_CODE, args, "fan_state", "S"), SP,
             CodeOf(HVAC_MODE_TO_CODE, args, "mode", "O"), CR>>

\* The command send_command builds for any other entity type.
StateCommand(args) ==
    <<"@", "S", SP, args.entity_type, SP>> \o FormatInt(args.entity_id)
        \o (IF "state" \in DOMAIN args THEN <<SP>> \o args.state ELSE <<>>) \o <<CR>>

\* How the port calls of send_command may end: write and flush return, write
\* raises, or write returns and flush raises.
SendOutcomes ==
    {outcome \in {"sent", "write raises", "flush raises"} :
        IF outcome = "write raises" THEN MayRaise
        ELSE IF outcome = "flush raises" THEN MaySucceed /\ ioFails
        ELSE MaySucceed}

\* One call of send_command whose result is True whenever write returned.
SendCommandUnflushed(args, outcome) ==
    IF args.entity_type = "H" /\ HvacFieldsMissing(args)
    THEN [tx |-> <<>>, writes |-> 0, completed |-> {}, result |-> FALSE]
    ELSE [tx |-> IF outcome # "write raises"
                 THEN <<(IF args.entity_type = "H" THEN HvacCommand(args)
                         ELSE StateCommand(args))>>
                 ELSE <<>>,
          writes |-> 1,
          completed |-> IF outcome = "sent" THEN {"write", "flush"}
                        ELSE IF outcome = "flush raises" THEN {"write"} ELSE {},
          result |-> outcome # "write raises"]

\* What the transport and the caller see of one call of send_command: the
\* command handed to a write that returned, whether write was called, the port
\* calls that returned, and the value returned: True after write and flush,
\* False after the error of either.
send_command(args, outcome) ==
    IF args.entity_type = "H" /\ HvacFieldsMissing(args)
    THEN [tx |-> <<>>, writes |-> 0, completed |-> {}, result |-> FALSE]
    ELSE [tx |-> IF outcome # "write raises"
                 THEN <<(IF args.entity_type = "H" THEN HvacCommand(args)
                         ELSE StateCommand(args))>>
                 ELSE <<>>,
          writes |-> 1,
          completed |-> IF outcome = "sent" THEN {"write", "flush"}
                        ELSE IF outcome = "flush raises" THEN {"write"} ELSE {},
          result |-> outcome = "sent"]

\* What a caller of send_command in this section leaves alone.
notEncoderVars == <<queryVars, listenerVars, stopVars, loginVars, open_ticks,
                    hvacVars, bypassVars, zoneVars, logoutVars, announceVars>>

\* An argument given with one of the values, or left out.
Optional(name, values) == {<<>>} \cup {name :> v : v \in values}

\* The arguments a caller may give.
SendArguments ==
    {[entity_type |-> t, entity_id |-> 1] @@ st @@ hs @@ cs @@ fs @@ md :
        t \in {"H", "L"},
        st \in Optional("state", {<<"5", "0">>}),
        hs \in Optional("heating_setpoint", {200}),
        cs \in Optional("cooling_setpoint", {225}),
        fs \in Optional("fan_state", {"on", "off", "low"}),
        md \in Optional("mode", {"auto", "heat", "cool", "off", "economy", "normal", "dry"})}

\* A handler calls send_command.
CCall ==
    /\ c_pc = "idle"
    /\ c_args' \in SendArguments
    /\ c_pc' = "called"
    /\ UNCHANGED <<transportVars, c_result, c_writes, c_completed, notEncoderVars>>

\* send_command runs: the test of the HVAC fields, the command, write and flush,
\* which may raise.
CSend ==
    /\ c_pc = "called"
    /\ \E outcome \in SendOutcomes :
       \E sent \in {send_command(c_args, outcome)} :
           /\ tx' = tx \o sent.tx
           /\ c_writes' = c_writes + sent.writes
           /\ c_completed' = sent.completed
           /\ c_result' = sent.result
    /\ c_pc' = "done"
    /\ UNCHANGED <<is_open, rx, wire, budget, ioFails, c_args, notEncoderVars>>

\* ------------------------------------------------------------------ hvac

\* HVAC_CODE_TO_MODE
HVAC_CODE_TO_MODE == Inverse(HVAC_MODE_TO_CODE)

\* FAN_CODE_TO_STATE
FAN_CODE_TO_STATE == Inverse(FAN_STATE_TO_CODE)

\* The lower-case letter of each upper-case letter.
LowerChar ==
    ("A" :> "a") @@ ("B" :> "b") @@ ("C" :> "c") @@ ("D" :> "d") @@ ("E" :> "e") @@ ("F" :> "f") @@
    ("G" :> "g") @@ ("H" :> "h") @@ ("I" :> "i") @@ ("J" :> "j") @@ ("K" :> "k") @@ ("L" :> "l") @@
    ("M" :> "m") @@ ("N" :> "n") @@ ("O" :> "o") @@ ("P" :> "p") @@ ("Q" :> "q") @@ ("R" :> "r") @@
    ("S" :> "s") @@ ("T" :> "t") @@ ("U" :> "u") @@ ("V" :> "v") @@ ("W" :> "w") @@ ("X" :> "x") @@
    ("Y" :> "y") @@ ("Z" :> "z")

\* str.lower()
lower(str) == [i \in 1..Len(str) |-> Get(LowerChar, str[i], str[i])]

\* The texts the tables of the HVAC know, as the keys of the tables.
WordOf ==
    (<<"o", "n">> :> "on") @@
    (<<"o", "f", "f">> :> "off") @@
    (<<"a", "u", "t", "o">> :> "auto") @@
    (<<"h", "e", "a", "t">> :> "heat") @@
    (<<"c", "o", "o", "l">> :> "cool") @@
    (<<"e", "c", "o", "n", "o", "m", "y">> :> "economy") @@
    (<<"n", "o", "r", "m", "a", "l">> :> "normal")

\* A text as a key of the tables; every text no table knows is the key "other".
AsString(str) == Get(WordOf, str, "other")

\* Whether float(str) returns: digits, or digits with one decimal (the texts
\* with an exponent, more decimals or a sign are none of the texts used here).
IsFloat(str) ==
    \E dot \in {FindAny(str, {"."})} :
        IF dot = 0 THEN IsInt(str)
        ELSE /\ IsInt(SubSeq(str, 1, dot - 1))
             /\ Len(str) = dot + 1
             /\ str[dot + 1] \in Digits

\* float(str), in tenths.
float(str) ==
    CHOOSE tenths \in {IF FindAny(str, {"."}) = 0 THEN 10 * ParseInt(str)
                       ELSE 10 * ParseInt(SubSeq(str, 1, Len(str) - 2))
                            + ParseInt(SubSeq(str, Len(str), Len(str)))} : TRUE

\* A dictionary with one key set.
SetKey(dict, key, value) == (key :> value) @@ dict

\* The keys update of handle_set_command writes for a setting_type.
SettingTypes == {"heating_setpoint", "cooling_setpoint", "fan", "mode"}

\* Whether the assignment of handle_set_command for the setting raises
\* ValueError.
SettingRaises(setting_type, payload) ==
    setting_type \in {"heating_setpoint", "cooling_setpoint"} /\ ~IsFloat(payload)

\* The value handle_set_command assigns for the setting.
SettingValue(setting_type, payload) ==
    IF setting_type \in {"heating_setpoint", "cooling_setpoint"} THEN float(payload)
    ELSE AsString(lower(payload))

\* The locals handle_set_command computes from the record, in its first
\* critical section.
HvacLocals(state) ==
    [heating_setpoint |-> state["cooling_setpoint"] - 20,
     cooling_setpoint |-> state["cooling_setpoint"],
     fan_state |-> state["fan"],
     mode |-> state["mode"]]

\* The four calls of update_hvac_state of the second critical section.
WriteLocals(states, hvac_id, locals) ==
    SetKey(states, hvac_id,
           SetKey(SetKey(SetKey(SetKey(IF hvac_id \in DOMAIN states THEN states[hvac_id]
                                       ELSE <<>>,
                                       "heating_setpoint", locals.heating_setpoint),
                                "cooling_setpoint", locals.cooling_setpoint),
                         "fan", locals.fan_state),
                  "mode", locals.mode))

\* A code of one character as a key of the code tables; any other token is a
\* key no table has.
CodeKey(token) == IF Len(token) = 1 THEN token[1] ELSE "other"

\* Whether process_update raises before it writes: a missing token, an HVAC id
\* that is no integer, a setpoint that is no float.
UpdateRaises(message_parts) ==
    \/ Len(message_parts) < 7
    \/ ~IsInt(message_parts[3])
    \/ ~IsFloat(message_parts[4])
    \/ ~IsFloat(message_parts[5])

\* The fields process_update writes from a message.
UpdateFields(message_parts) ==
    [heating_setpoint |-> float(message_parts[4]),
     cooling_setpoint |-> float(message_parts[5]),
     fan |-> Get(FAN_CODE_TO_STATE, CodeKey(message_parts[6]), "off"),
     mode |-> Get(HVAC_CODE_TO_MODE, CodeKey(message_parts[7]), "unknown")]

\* process_update's write under the lock.
WriteUpdate(states, message_parts) ==
    SetKey(states, ParseInt(message_parts[3]),
           UpdateFields(message_parts)
           @@ (IF ParseInt(message_parts[3]) \in DOMAIN states
               THEN states[ParseInt(message_parts[3])] ELSE <<>>))

\* The @I H message the bus sends for an HVAC set command: the command with
\* "@I" for "@S".
Echo(command) == SplitWS(<<"@", "I">> \o SubSeq(command, 3, Len(command)))

\* What the HVAC handlers leave alone.
notHvacVars == <<queryVars, listenerVars, stopVars, loginVars, open_ticks,
                 bypassVars, zoneVars, encoderVars, logoutVars, announceVars>>

\* The payloads of an HVAC set command, as _on_message hands them on
\* (`payload.upper()`).
HvacPayloads ==
    {<<"2", "1", ".", "5">>, <<"2", "4", ".", "0">>, <<"A", "B", "C">>,
     <<"O", "N">>, <<"O", "F", "F">>, <<"A", "U", "T", "O">>, <<"H", "E", "A", "T">>, <<"C", "O", "O", "L">>,
     <<"E", "C", "O", "N", "O", "M", "Y">>, <<"N", "O", "R", "M", "A", "L">>, <<"D", "R", "Y">>}

\* _on_message hands an HVAC set command to handle_set_command: the topic gives
\* hvac_id 1 and the setting_type.
HCall ==
    /\ h_pc = "idle"
    /\ h_setting' \in SettingTypes \cup {"name"}
    /\ h_payload' \in HvacPayloads
    /\ h_pc' = "lock1"
    /\ UNCHANGED <<transportVars, state_lock, hvac_states, h_locals, h_before, u_pc, u_parts, u_written,
                   notHvacVars>>

\* The first `with app_state.lock:` is entered.
HAcquire1 ==
    /\ h_pc = "lock1"
    /\ state_lock = FREE
    /\ state_lock' = "mqtt"
    /\ h_pc' = "section1"
    /\ UNCHANGED <<transportVars, hvac_states, h_setting, h_payload, h_before, h_locals, u_pc, u_parts,
                   u_written, notHvacVars>>

\* The first critical section: the command is ignored if the record has no
\* cooling_setpoint; the setting is assigned (ValueError for a payload that is
\* no float, return for an unknown setting_type); the four locals are read
\* from the record (KeyError if it has no fan or no mode). The lock is released
\* however the section is left.
HSection1 ==
    /\ h_pc = "section1"
    /\ state_lock' = FREE
    /\ IF 1 \notin DOMAIN hvac_states \/ "cooling_setpoint" \notin DOMAIN hvac_states[1]
       THEN /\ h_pc' = "ignored"
            /\ UNCHANGED <<hvac_states, h_locals, u_written>>
       ELSE IF SettingRaises(h_setting, h_payload)
       THEN /\ h_pc' = "error"
            /\ UNCHANGED <<hvac_states, h_locals, u_written>>
       ELSE IF h_setting \notin SettingTypes
       THEN /\ h_pc' = "ignored"
            /\ UNCHANGED <<hvac_states, h_locals, u_written>>
       ELSE \E state \in {SetKey(hvac_states[1], h_setting,
                                 SettingValue(h_setting, h_payload))} :
              /\ hvac_states' = SetKey(hvac_states, 1, state)
              /\ IF {"fan", "mode"} \subseteq DOMAIN state
                 THEN /\ h_locals' = HvacLocals(state)
                      /\ u_written' = <<>>
                      /\ h_pc' = "send"
                 ELSE /\ h_pc' = "error"
                      /\ UNCHANGED <<h_locals, u_written>>
    /\ h_before' = IF 1 \in DOMAIN hvac_states THEN hvac_states[1] ELSE <<>>
    /\ UNCHANGED <<transportVars, h_setting, h_payload, u_pc, u_parts, notHvacVars>>

\* send_command for the HVAC, outside the lock; its result is not looked at.
HSend ==
    /\ h_pc = "send"
    /\ \E outcome \in SendOutcomes :
       \E sent \in {send_command([entity_type |-> "H", entity_id |-> 1] @@ h_locals,
                                 outcome)} :
           tx' = tx \o sent.tx
    /\ h_pc' = "lock2"
    /\ UNCHANGED <<is_open, rx, wire, budget, ioFails, state_lock, hvac_states, h_setting,
                   h_payload, h_before, h_locals, u_pc, u_parts, u_written, notHvacVars>>

\* The second `with app_state.lock:` is entered.
HAcquire2 ==
    /\ h_pc = "lock2"
    /\ state_lock = FREE
    /\ state_lock' = "mqtt"
    /\ h_pc' = "section2"
    /\ UNCHANGED <<transportVars, hvac_states, h_setting, h_payload, h_before, h_locals, u_pc, u_parts,
                   u_written, notHvacVars>>

\* The second critical section: the four locals are written to the record.
HSection2 ==
    /\ h_pc = "section2"
    /\ hvac_states' = WriteLocals(hvac_states, 1, h_locals)
    /\ state_lock' = FREE
    /\ h_pc' = "done"
    /\ UNCHANGED <<transportVars, h_setting, h_payload, h_before, h_locals, u_pc, u_parts, u_written,
                   notHvacVars>>

\* The @I H messages of the bus: a change made at the unit, a message with codes
\* no table has, a message cut short, and the echo of each command sent.
HvacUpdates ==
    {<<<<"@", "I">>, <<"H">>, <<"1">>, <<"2", "0", ".", "0">>, <<"2", "1", ".", "0">>, <<"S">>, <<"H">>>>,
     <<<<"@", "I">>, <<"H">>, <<"1">>, <<"2", "0", ".", "0">>, <<"2", "1", ".", "0">>, <<"X">>, <<"X">>>>,
     <<<<"@", "I">>, <<"H">>, <<"1">>, <<"2", "0", ".", "0">>>>}
    \cup {Echo(tx[i]) : i \in 1..Len(tx)}

\* process_update is entered with the arguments of its signature: the tokens
\* are read, which raises for a missing or malformed one, and the four topics
\* are published.
UCall ==
    /\ u_pc = "idle"
    /\ \E message_parts \in HvacUpdates :
           /\ u_parts' = message_parts
           /\ u_pc' = IF UpdateRaises(message_parts) THEN "raised" ELSE "lock"
    /\ UNCHANGED <<transportVars, state_lock, hvac_states, h_pc, h_setting, h_payload, h_before,
                   h_locals, u_written, notHvacVars>>

\* process_update enters `with app_state.lock:`.
UAcquire ==
    /\ u_pc = "lock"
    /\ state_lock = FREE
    /\ state_lock' = "listener"
    /\ u_pc' = "section"
    /\ UNCHANGED <<transportVars, hvac_states, h_pc, h_setting, h_payload, h_before, h_locals, u_parts,
                   u_written, notHvacVars>>

\* process_update writes the four fields and releases the lock.
UWrite ==
    /\ u_pc = "section"
    /\ hvac_states' = WriteUpdate(hvac_states, u_parts)
    /\ u_written' = UpdateFields(u_parts)
    /\ state_lock' = FREE
    /\ u_pc' = "done"
    /\ UNCHANGED <<transportVars, h_pc, h_setting, h_payload, h_before, h_locals, u_parts, notHvacVars>>

\* ----------------------------------------------------------- zone bypass

\* The zone count of handle_bypass_command: `len(...) != 16` and `"N" * 16`.
ZONE_COUNT == 16

\* A snapshot of n zones, none bypassed.
NoneBypassed(n) == [i \in 1..n |-> "N"]

\* A snapshot used as it is stored.
SnapshotKept(states) == states

\* `if not app_state.bypass_states or len(app_state.bypass_states) != 16:
\*      app_state.bypass_states = "N" * 16`
SnapshotOrDefault(states) ==
    IF states = <<>> \/ Len(states) # ZONE_COUNT THEN [i \in 1..ZONE_COUNT |-> "N"]
    ELSE states

\* The zone whose character `zone_bypass_states[zone_id - 1]` names in a list
\* of ZONE_COUNT characters: an index below zero counts from the end of the
\* list; 0 stands for the IndexError of an index outside the list.
ZoneIndex(zone_id) ==
    IF zone_id \in 1..ZONE_COUNT THEN zone_id
    ELSE IF zone_id \in (1 - ZONE_COUNT)..0 THEN ZONE_COUNT + zone_id
    ELSE 0

\* An index that names a zone only for a zone_id of 1..ZONE_COUNT.
ZoneIndexChecked(zone_id) == IF zone_id \in 1..ZONE_COUNT THEN zone_id ELSE 0

\* `zone_bypass_states[zone_id - 1] = "Y"` for ON, `"N"` for OFF, on a list of
\* ZONE_COUNT characters.
SetZone(zone_bypass_states, zone_id, payload) ==
    [zone_bypass_states EXCEPT ![ZoneIndex(zone_id)] = IF payload = "ON" THEN "Y" ELSE "N"]

\* The variables of a second thread in handle_bypass_command.
secondVars == <<b2_pc, b2_zone, b2_payload, b2_states>>

\* What handle_bypass_command leaves alone.
notBypassVars == <<queryVars, listenerVars, stopVars, loginVars, open_ticks,
                   zoneVars, encoderVars, logoutVars, announceVars>>

\* _on_message hands a bypass set command to handle_bypass_command:
\* `zone_id = int(topic.split("/")[-1])`.
BCall ==
    /\ b_pc = "idle"
    /\ \E zone_id \in 1..ZONE_COUNT, payload \in {"ON", "OFF", "TOGGLE"} :
           /\ b_zone' = zone_id
           /\ b_payload' = payload
    /\ b_pc' = "lock"
    /\ UNCHANGED <<transportVars, bypass_states, b_before, b_command, b_success, secondVars,
                   b_reported, b_published, hvacVars, notBypassVars>>

\* The zone ids of a topic that name no zone: "0", "-1" and "17".
OtherZones == {0, -1, ZONE_COUNT + 1}

\* The same call for a topic whose last part is an integer that names no zone.
BCallOther ==
    /\ b_pc = "idle"
    /\ \E zone_id \in OtherZones, payload \in {"ON", "OFF", "TOGGLE"} :
           /\ b_zone' = zone_id
           /\ b_payload' = payload
    /\ b_pc' = "lock"
    /\ UNCHANGED <<transportVars, bypass_states, b_before, b_command, b_success, secondVars,
                   b_reported, b_published, hvacVars, notBypassVars>>

\* `with app_state.lock:` is entered.
BAcquire ==
    /\ b_pc = "lock"
    /\ state_lock = FREE
    /\ state_lock' = "mqtt"
    /\ b_pc' = "locked"
    /\ UNCHANGED <<transportVars, bypass_states, b_zone, b_payload, b_before, b_command,
                   b_success, secondVars, b_reported, b_published,
                   hvac_states, h_pc, h_setting, h_payload, h_before, h_locals, u_pc, u_parts, u_written,
                   notBypassVars>>

\* A handler that stores the new snapshot whatever send_command returned.
StoredAlways(success, states, base) == states

\* `if success: app_state.bypass_states = "".join(zone_bypass_states)`
StoredAfter(success, states, base) == IF success THEN states ELSE base

\* The body of the with block: the snapshot is replaced if it is empty or of
\* the wrong length, the zone is set (an index outside the list raises
\* IndexError, which leaves the handler), the command is sent and, if
\* send_command returned True, the new snapshot is stored; the lock is released
\* however the block is left.
BRun ==
    /\ b_pc = "locked"
    /\ \E base \in {SnapshotOrDefault(bypass_states)} :
          IF b_payload \notin {"ON", "OFF"} \/ ZoneIndex(b_zone) = 0
          THEN /\ bypass_states' = base
               /\ b_pc' = IF b_payload \in {"ON", "OFF"} THEN "raised" ELSE "done"
               /\ UNCHANGED <<tx, b_command, b_success>>
          ELSE \E states \in {SetZone(base, b_zone, b_payload)} :
               \E outcome \in SendOutcomes :
               \E sent \in {send_command([entity_type |-> "B", entity_id |-> 1,
                                          state |-> states], outcome)} :
                   /\ b_command' = states
                   /\ b_success' = sent.result
                   /\ tx' = tx \o sent.tx
                   /\ bypass_states' = StoredAfter(sent.result, states, base)
                   /\ b_pc' = "done"
    /\ b_before' = bypass_states
    /\ state_lock' = FREE
    /\ UNCHANGED <<is_open, rx, wire, budget, ioFails, b_zone, b_payload, secondVars,
                   b_reported, b_published,
                   hvac_states, h_pc, h_setting, h_payload, h_before, h_locals, u_pc, u_parts, u_written,
                   notBypassVars>>

\* What a step of the second thread leaves alone.
notSecondVars == <<b_pc, b_zone, b_payload, b_before, b_command, b_success, b_reported, b_published,
                   hvac_states, h_pc, h_setting, h_payload, h_before, h_locals, u_pc, u_parts,
                   u_written, notBypassVars>>

\* The zones of the commands of the second thread.
SecondZones == {2, ZONE_COUNT}

\* handle_bypass_command is called on a second thread.
B2Call ==
    /\ b2_pc = "idle"
    /\ \E zone_id \in SecondZones, payload \in {"ON", "OFF"} :
           /\ b2_zone' = zone_id
           /\ b2_payload' = payload
    /\ b2_pc' = "lock"
    /\ UNCHANGED <<transportVars, state_lock, bypass_states, b2_states, notSecondVars>>

\* A with statement that is entered whoever holds the lock.
B2AcquireNoLock ==
    /\ b2_pc = "lock"
    /\ b2_pc' = "locked"
    /\ UNCHANGED <<transportVars, state_lock, bypass_states, b2_zone, b2_payload, b2_states,
                   notSecondVars>>

\* `with app_state.lock:` is entered by the second thread.
B2Acquire ==
    /\ b2_pc = "lock"
    /\ state_lock = FREE
    /\ state_lock' = "mqtt2"
    /\ b2_pc' = "locked"
    /\ UNCHANGED <<transportVars, bypass_states, b2_zone, b2_payload, b2_states, notSecondVars>>

\* The second thread up to send_command: the snapshot is replaced if it is
\* empty or of the wrong length, and the zone is set in the list made of it.
\* The accessor app_state.bypass_states takes the lock again.
B2Read ==
    /\ b2_pc = "locked"
    /\ MayEnter("mqtt2")
    /\ bypass_states' = SnapshotOrDefault(bypass_states)
    /\ b2_states' = SetZone(SnapshotOrDefault(bypass_states), b2_zone, b2_payload)
    /\ b2_pc' = "send"
    /\ UNCHANGED <<transportVars, state_lock, b2_zone, b2_payload, notSecondVars>>

\* The second thread from send_command on: the command is sent, the new
\* snapshot is stored (by the accessor, which takes the lock again) if
\* send_command returned True, the lock is released.
B2Send ==
    /\ b2_pc = "send"
    /\ MayEnter("mqtt2")
    /\ \E outcome \in SendOutcomes :
       \E sent \in {send_command([entity_type |-> "B", entity_id |-> 1,
                                  state |-> b2_states], outcome)} :
           /\ tx' = tx \o sent.tx
           /\ bypass_states' = StoredAfter(sent.result, b2_states, bypass_states)
    /\ state_lock' = FREE
    /\ b2_pc' = "done"
    /\ UNCHANGED <<is_open, rx, wire, budget, ioFails, b2_zone, b2_payload, b2_states,
                   notSecondVars>>

\* interpret_bypass_character
interpret_bypass_character(character) ==
    IF character = "Y" THEN "ON" ELSE IF character = "N" THEN "OFF" ELSE "UNKNOWN"

\* The bypass states published for the first n characters of a bypass string.
BypassPublished(states, n) ==
    [i \in 1..(IF n < Len(states) THEN n ELSE Len(states)) |->
        interpret_bypass_character(states[i])]

\* A login that stores the bypass string of a message as it came.
LoginBypassWhole(states) == states

\* The group `([NY]+)` of process_login_bypass on the bypass string of a
\* message: its longest prefix of N and Y, no match if that is empty.
LoginBypassGroup(states) ==
    SubSeq(states, 1,
           IF \A i \in 1..Len(states) : states[i] \in {"N", "Y"} THEN Len(states)
           ELSE (CHOOSE i \in 1..Len(states) :
                    /\ states[i] \notin {"N", "Y"}
                    /\ \A j \in 1..(i - 1) : states[j] \in {"N", "Y"}) - 1)

\* The bypass strings the bus reports.
BypassReports ==
    {[NoneBypassed(ZONE_COUNT) EXCEPT ![3] = "Y"],
     [NoneBypassed(ZONE_COUNT) EXCEPT ![2] = "Y", ![3] = "X"],
     [NoneBypassed(ZONE_COUNT + 1) EXCEPT ![1] = "Y"],
     NoneBypassed(ZONE_COUNT)}

\* What a handler of a bypass report leaves alone.
notReportVars == <<transportVars, b_pc, b_zone, b_payload, b_before, b_command, b_success, secondVars,
                   hvacVars, notBypassVars>>

\* process_login_bypass on an @I B message of the login response: the matched
\* string is stored under the lock and published.
BLoginReport ==
    /\ state_lock = FREE
    /\ \E states \in BypassReports :
           /\ b_reported' = states
           /\ IF LoginBypassGroup(states) = <<>>
              THEN UNCHANGED <<bypass_states, b_published>>
              ELSE /\ bypass_states' = LoginBypassGroup(states)
                   /\ b_published' = BypassPublished(LoginBypassGroup(states),
                                                      Len(states))
    /\ UNCHANGED notReportVars

\* process_bypass_update on an @I B message the listener dispatches: every
\* character of the string is published.
BListenerReport ==
    /\ \E states \in BypassReports :
           /\ b_reported' = states
           /\ b_published' = BypassPublished(states, Len(states))
    /\ UNCHANGED <<bypass_states, notReportVars>>

\* _get_entity_state for the answer of the bypass query the listener sends
\* after @A B 1: the first sixteen characters are published.
BRequeryReport ==
    /\ \E states \in BypassReports :
           /\ b_reported' = states
           /\ b_published' = BypassPublished(states, ZONE_COUNT)
    /\ UNCHANGED <<bypass_states, notReportVars>>

\* ----------------------------------------------------------------- logout

\* f"@S P O{CARDIO2E_TERMINATOR}"
LogoutCommand == <<"@", "S", SP, "P", SP, "O", CR>>

\* What logout leaves alone.
notLogoutVars == <<queryVars, listenerVars, stopVars, loginVars, open_ticks,
                   hvacVars, bypassVars, zoneVars, encoderVars, announceVars>>

\* The shutdown handler calls logout(serial_conn).
LogoutCall ==
    /\ o_pc = "idle"
    /\ o_pc' = "write"
    /\ UNCHANGED <<transportVars, o_result, o_writes, notLogoutVars>>

\* A logout that, having written, waits for an answer of the bus and reads it.
LogoutWriteThenRead ==
    /\ o_pc = "write"
    /\ rx # <<>>
    /\ MaySucceed
    /\ tx' = Append(tx, LogoutCommand)
    /\ rx' = <<>>
    /\ o_writes' = o_writes + 1
    /\ o_result' = TRUE
    /\ o_pc' = "done"
    /\ UNCHANGED <<is_open, wire, budget, ioFails, notLogoutVars>>

\* serial_conn.write(command.encode()) and the return: True, or False from the
\* except branch when the write raises.
LogoutWrite ==
    /\ o_pc = "write"
    /\ \/ MaySucceed /\ tx' = Append(tx, LogoutCommand) /\ o_result' = TRUE
       \/ MayRaise /\ tx' = tx /\ o_result' = FALSE
    /\ o_writes' = o_writes + 1
    /\ o_pc' = "done"
    /\ UNCHANGED <<is_open, rx, wire, budget, ioFails, notLogoutVars>>

\* ------------------------------------------------------------------ zones

\* interpret_zone_character(character, zone_id, zones_normal_as_off)
interpret_zone_character(character, zone_id, zones_normal_as_off) ==
    LET is_inverted == zone_id \in zones_normal_as_off
    IN  IF character = "O" THEN (IF is_inverted THEN "OFF" ELSE "ON")
        ELSE IF character = "N" THEN (IF is_inverted THEN "OFF" ELSE "ON")
        ELSE IF character = "C" THEN (IF is_inverted THEN "ON" ELSE "OFF")
        ELSE IF character = "E" THEN "ERROR"
        ELSE "UNKNOWN"

\* What the zone handler leaves alone.
notZoneVars == <<transportVars, queryVars, listenerVars, stopVars, loginVars, open_ticks,
                 hvacVars, bypassVars, encoderVars, logoutVars, announceVars>>

\* The dispatcher hands an @I Z message to process_zone_update:
\* `zone_states = message_parts[3]`.
ZCall ==
    /\ z_pc = "idle"
    /\ z_pc' = "loop"
    /\ z_published' = <<>>
    /\ UNCHANGED <<z_states, z_invert, notZoneVars>>

\* One turn of `for zone_id in range(1, len(zone_states) + 1)`: the state of
\* the zone is interpreted and published.
ZPublish ==
    /\ z_pc = "loop"
    /\ \E zone_id \in {Len(z_published) + 1} :
           /\ zone_id <= Len(z_states)
           /\ z_published' = Append(z_published,
                  interpret_zone_character(z_states[zone_id], zone_id, z_invert))
    /\ UNCHANGED <<z_pc, z_states, z_invert, notZoneVars>>

\* The loop of process_zone_update is over.
ZReturn ==
    /\ z_pc = "loop"
    /\ Len(z_published) = Len(z_states)
    /\ z_pc' = "done"
    /\ UNCHANGED <<z_states, z_invert, z_published, notZoneVars>>

\* serial_conn.close(), called by the shutdown handler.
Close ==
    /\ is_open
    /\ is_open' = FALSE
    /\ UNCHANGED <<rx, tx, wire, budget, ioFails, queryVars, listenerVars, stopVars,
                   loginVars, open_ticks, appVars>>

\* Half a second passes.
Tick ==
    /\ IF is_open /\ l_pc \notin {"off", "returned"}
       THEN open_ticks > 0 /\ open_ticks' = open_ticks - 1
       ELSE open_ticks' = open_ticks
    /\ QTimePasses
    /\ LTimePasses
    /\ UNCHANGED <<transportVars, q_pc, q_attempts, q_buffer, q_waiting, q_result,
                   q_writes, q_seen, stopVars, loginVars, l_pc, serial_lock, l_buffer, l_waiting,
                   l_msgs, l_date_log, dispatched, l_bytes, l_text, l_raised, l_reports, l_log,
                   appVars>>


\* ------------------------------------------- state announcements of the login

\* SWITCH_CODE_TO_STATE, SECURITY_CODE_TO_STATE, TEMP_CODE_TO_STATUS
SWITCH_CODE_TO_STATE == ("O" :> "ON") @@ ("C" :> "OFF")
SECURITY_CODE_TO_STATE == ("A" :> "armed_away") @@ ("D" :> "disarmed")
TEMP_CODE_TO_STATUS == ("H" :> "heat") @@ ("C" :> "cool") @@ ("O" :> "off")

\* The values the handlers publish and store: a text as it came from the bus,
\* a word of one of the tables, a number (int, or float in tenths).
Text(str) == [text |-> str]
Word(w) == [word |-> w]
Number(n) == [number |-> n]

\* The elements of the patterns of the handlers: a literal text, one character
\* of a class (a group), `[class]+` (a group), `\d+\.\d+` (a group).
Lit(str) == [kind |-> "lit", text |-> str, class |-> {}]
One(class) == [kind |-> "one", text |-> <<>>, class |-> class]
Run(class) == [kind |-> "run", text |-> <<>>, class |-> class]
Dec == [kind |-> "dec", text |-> <<>>, class |-> Digits]

\* The length of the longest run of characters of the class at a position.
RunLen(str, pos, class) ==
    IF \E i \in pos..Len(str) : str[i] \notin class
    THEN (CHOOSE i \in pos..Len(str) :
              str[i] \notin class /\ \A j \in pos..(i - 1) : str[j] \in class) - pos
    ELSE Len(str) - pos + 1

RECURSIVE MatchFrom(_, _, _, _)
\* re.match of the pattern from element k on at a position of the text: whether
\* it matches and the groups. A class repeated takes the longest run, which is
\* what the patterns of the handlers match: no element that follows such a run
\* begins with a character of its class.
MatchFrom(pattern, str, k, pos) ==
    IF k > Len(pattern) THEN [ok |-> TRUE, groups |-> <<>>]
    ELSE LET e == pattern[k]
             n == RunLen(str, pos, e.class)
             m == IF pos + n <= Len(str) /\ str[pos + n] = "."
                  THEN RunLen(str, pos + n + 1, Digits) ELSE 0
             len == IF e.kind = "lit"
                    THEN (IF pos + Len(e.text) - 1 <= Len(str)
                             /\ SubSeq(str, pos, pos + Len(e.text) - 1) = e.text
                          THEN Len(e.text) ELSE 0)
                    ELSE IF e.kind = "one" THEN (IF n >= 1 THEN 1 ELSE 0)
                    ELSE IF e.kind = "run" THEN n
                    ELSE (IF n >= 1 /\ m >= 1 THEN n + 1 + m ELSE 0)
             rest == MatchFrom(pattern, str, k + 1, pos + len)
         IN  IF len = 0 \/ ~rest.ok THEN [ok |-> FALSE, groups |-> <<>>]
             ELSE [ok |-> TRUE,
                   groups |-> (IF e.kind = "lit" THEN <<>>
                               ELSE <<SubSeq(str, pos, pos + len - 1)>>) \o rest.groups]

\* re.match(pattern, message)
Match(pattern, message) == MatchFrom(pattern, message, 1, 1)

\* The patterns of the login-time handlers and of process_temp_update.
LIGHT_PATTERN == <<Lit(<<"@", "I", SP, "L", SP>>), Run(Digits), Lit(<<SP>>), Run(Digits)>>
SWITCH_PATTERN == <<Lit(<<"@", "I", SP, "R", SP>>), Run(Digits), Lit(<<SP>>), One({"O", "C"})>>
HVAC_PATTERN ==
    <<Lit(<<"@", "I", SP, "H", SP>>), Run(Digits), Lit(<<SP>>), Dec, Lit(<<SP>>), Dec, Lit(<<SP>>),
      One({"S", "R"}), Lit(<<SP>>), One({"A", "H", "C", "O", "E", "N"})>>
TEMP_PATTERN ==
    <<Lit(<<"@", "I", SP, "T", SP>>), Run(Digits), Lit(<<SP>>), Dec, Lit(<<SP>>), One({"H", "C", "O"})>>
SECURITY_PATTERN == <<Lit(<<"@", "I", SP, "S", SP, "1", SP>>), One({"A", "D"})>>
ZONES_PATTERN == <<Lit(<<"@", "I", SP, "Z", SP>>), Run(Digits), Lit(<<SP>>), Run({"C", "O"})>>
BYPASS_PATTERN == <<Lit(<<"@", "I", SP, "B", SP>>), Run(Digits), Lit(<<SP>>), Run({"N", "Y"})>>

\* " ".join(message_parts)
RECURSIVE Join(_)
Join(message_parts) ==
    IF message_parts = <<>> THEN <<>>
    ELSE IF Len(message_parts) = 1 THEN message_parts[1]
    ELSE message_parts[1] \o <<SP>> \o Join(Tail(message_parts))

\* What a handler leaves: what it published (the kind of topic, the id in the
\* topic, the value), app_state after it, and whether it raised.
Effect(published, states, raised) ==
    [published |-> published, hvac_states |-> states.hvac_states,
     bypass_states |-> states.bypass_states, raised |-> raised]

\* A handler that does nothing: its pattern did not match.
NoEffect(states) == Effect(<<>>, states, FALSE)

\* update_hvac_state: the key is written, into a new record if there is none,
\* and published.
update_hvac_state(effect, hvac_id, key, value) ==
    [effect EXCEPT
        !.hvac_states = SetKey(@, hvac_id,
                               SetKey(IF hvac_id \in DOMAIN @ THEN @[hvac_id] ELSE <<>>,
                                      key, value)),
        !.published = Append(@, <<key, FormatInt(hvac_id), value>>)]

\* initialize_hvac_state: a record of four keys for an HVAC that has none.
\* lower() leaves the mode names of the table as they are and makes "unknown"
\* of "Unknown".
initialize_hvac_state(effect, hvac_id, heating_setpoint, cooling_setpoint, fan_state, system_mode) ==
    IF hvac_id \in DOMAIN effect.hvac_states THEN effect
    ELSE [effect EXCEPT
             !.hvac_states =
                 SetKey(@, hvac_id,
                        [heating_setpoint |-> Number(float(heating_setpoint)),
                         cooling_setpoint |-> Number(float(cooling_setpoint)),
                         fan |-> Word(Get(FAN_CODE_TO_STATE, CodeKey(fan_state), "off")),
                         mode |-> Word(IF system_mode = "Unknown" THEN "unknown"
                                       ELSE system_mode)])]

\* process_temp_update, which handles the @I T messages of the login and of the
\* listener: the message is joined if it is a list and matched.
process_temp_update(message, states) ==
    LET match == Match(TEMP_PATTERN, message)
        temp_sensor_id == ParseInt(match.groups[1])
        temp_status_value == Get(TEMP_CODE_TO_STATUS, CodeKey(match.groups[3]), "Unknown")
    IN  IF ~match.ok THEN NoEffect(states)
        ELSE update_hvac_state(
                 update_hvac_state(NoEffect(states), temp_sensor_id,
                                   "current_temperature", Text(match.groups[2])),
                 temp_sensor_id, "alternative_status_from_temp", Word(temp_status_value))

\* The login-time handler of a message: process_login of the lights, switches,
\* HVAC and security, process_login_zones, process_login_bypass, and
\* process_temp_update. The name fetch, which changes neither what is
\* published of the state nor app_state, is left out.
LoginHandler(message, config, states) ==
    LET type == IF Len(message) >= 4 THEN message[4] ELSE "?"
        pattern == IF type = "L" THEN LIGHT_PATTERN
                   ELSE IF type = "R" THEN SWITCH_PATTERN
                   ELSE IF type = "H" THEN HVAC_PATTERN
                   ELSE IF type = "S" THEN SECURITY_PATTERN
                   ELSE IF type = "Z" THEN ZONES_PATTERN
                   ELSE BYPASS_PATTERN
        match == Match(pattern, message)
        g == match.groups
    IN  IF type = "T" THEN process_temp_update(message, states)
        ELSE IF ~match.ok THEN NoEffect(states)
        ELSE IF type = "L"
        THEN Effect(<<<<"light/state", g[1],
                        Word(IF ParseInt(g[2]) > 0 THEN "ON" ELSE "OFF")>>>>, states, FALSE)
        ELSE IF type = "R"
        THEN Effect(<<<<"switch/state", g[1],
                        Word(Get(SWITCH_CODE_TO_STATE, CodeKey(g[2]), "OFF"))>>>>,
                    states, FALSE)
        ELSE IF type = "S"
        THEN Effect(<<<<"alarm/state", <<"1">>,
                        Word(Get(SECURITY_CODE_TO_STATE, CodeKey(g[1]), "unknown"))>>>>,
                    states, FALSE)
        ELSE IF type = "Z"
        THEN Effect([i \in 1..Len(g[2]) |->
                        <<"zone/state", FormatInt(i),
                          Word(interpret_zone_character(g[2][i], i,
                                                        config.zones_normal_as_off))>>],
                    states, FALSE)
        ELSE IF type = "B"
        THEN Effect([i \in 1..Len(g[2]) |->
                        <<"zone/bypass/state", FormatInt(i),
                          Word(interpret_bypass_character(g[2][i]))>>],
                    [states EXCEPT !.bypass_states = g[2]], FALSE)
        ELSE LET hvac_id == ParseInt(g[1])
                 fan_state_value == Get(FAN_CODE_TO_STATE, CodeKey(g[4]), "off")
                 hvac_state == Get(HVAC_CODE_TO_MODE, CodeKey(g[5]), "Unknown")
             IN  update_hvac_state(update_hvac_state(update_hvac_state(update_hvac_state(
                     initialize_hvac_state(NoEffect(states), hvac_id, g[2], g[3], g[4],
                                           hvac_state),
                     hvac_id, "heating_setpoint", Text(g[2])),
                     hvac_id, "cooling_setpoint", Text(g[3])),
                     hvac_id, "fan", Word(fan_state_value)),
                     hvac_id, "mode", Word(hvac_state))

\* The listener-time handler of a message, entered with the arguments of its
\* signature: process_update of the lights, switches, HVAC and security,
\* process_zone_update, process_bypass_update, and process_temp_update. A
\* handler raises at int() or float() of a token that is no number, the one of
\* the HVAC after it has published.
ListenerHandler(message, config, states) ==
    LET message_parts == SplitWS(message)
        type == CodeKey(message_parts[2])
        id == FormatInt(ParseInt(message_parts[3]))
        state == message_parts[4]
    IN  IF type = "T" THEN process_temp_update(Join(message_parts), states)
        ELSE IF type \in {"Z", "B"}
        THEN Effect([i \in 1..Len(state) |->
                        IF type = "Z"
                        THEN <<"zone/state", FormatInt(i),
                               Word(interpret_zone_character(state[i], i,
                                                             config.zones_normal_as_off))>>
                        ELSE <<"zone/bypass/state", FormatInt(i),
                               Word(interpret_bypass_character(state[i]))>>],
                    states, FALSE)
        ELSE IF ~IsInt(message_parts[3]) THEN Effect(<<>>, states, TRUE)
        ELSE IF type = "L"
        THEN IF ~IsInt(state) THEN Effect(<<>>, states, TRUE)
             ELSE Effect(<<<<"light/state", id,
                             Word(IF ParseInt(state) > 0 THEN "ON" ELSE "OFF")>>>>
                         \o (IF ParseInt(message_parts[3]) \in config.dimmer_lights
                             THEN <<<<"light/brightness", id, Number(ParseInt(state))>>>>
                             ELSE <<>>),
                         states, FALSE)
        ELSE IF type = "R"
        THEN Effect(<<<<"switch/state", id,
                        Word(Get(SWITCH_CODE_TO_STATE, CodeKey(state), "OFF"))>>>>,
                    states, FALSE)
        ELSE IF type = "S"
        THEN Effect(<<<<"alarm/state", id,
                        Word(Get(SECURITY_CODE_TO_STATE, CodeKey(state), "unknown"))>>>>,
                    states, FALSE)
        ELSE IF Len(message_parts) < 7 THEN Effect(<<>>, states, TRUE)
        ELSE LET hvac_id == ParseInt(message_parts[3])
                 fields == UpdateFields(message_parts)
                 published ==
                     <<<<"heating_setpoint", id, Text(message_parts[4])>>,
                       <<"cooling_setpoint", id, Text(message_parts[5])>>,
                       <<"fan", id, Word(fields.fan)>>,
                       <<"mode", id, Word(fields.mode)>>>>
             IN  IF UpdateRaises(message_parts) THEN Effect(published, states, TRUE)
                 ELSE Effect(published,
                             [states EXCEPT !.hvac_states =
                                 SetKey(@, hvac_id,
                                        [heating_setpoint |-> Number(fields.heating_setpoint),
                                         cooling_setpoint |-> Number(fields.cooling_setpoint),
                                         fan |-> Word(fields.fan),
                                         mode |-> Word(fields.mode)]
                                        @@ (IF hvac_id \in DOMAIN @ THEN @[hvac_id]
                                            ELSE <<>>))],
                             FALSE)

\* What the handlers of the announcements leave alone.
notAnnounceVars == <<transportVars, queryVars, listenerVars, stopVars, loginVars, open_ticks,
                     hvacVars, bypassVars, zoneVars, encoderVars, logoutVars>>

\* The login hands the announcement to its handler.
ALogin ==
    /\ a_message # NONE
    /\ a_login = <<>>
    /\ a_login' = LoginHandler(a_message, a_config, a_states)
    /\ UNCHANGED <<a_message, a_config, a_states, a_listener, notAnnounceVars>>

\* The dispatcher of the listener hands the same announcement to its handler.
AListener ==
    /\ a_message # NONE
    /\ a_listener = <<>>
    /\ a_listener' = ListenerHandler(a_message, a_config, a_states)
    /\ UNCHANGED <<a_message, a_config, a_states, a_login, notAnnounceVars>>


vars == <<transportVars, queryVars, listenerVars, stopVars, loginVars, open_ticks, appVars>>

\* --------------------------------------------------------- specifications

\* The bounds of a run.
MaxChunks == 3
MaxTicks == 3
MaxBytes == 4
MaxLines == 2
MaxSilent == 2
MaxLogin == 4
MaxLoop == 2

\* Lines of the bus used in the runs.
LINE_COVER == <<"@", "I", SP, "C", SP, "1", SP, "7">>
LINE_DATE_ACK == <<"@", "A", SP, "D">>
LINE_BYPASS_ACK == <<"@", "A", SP, "B", SP, "1">>
LINE_BAD_ACK == <<"@", "A", SP, "L", SP, "x">>
LINE_BYPASS == <<"@", "I", SP, "B", SP, "1", SP, "N", "Y">>
LINE_LIGHT == <<"@", "I", SP, "L", SP, "1", SP, "7">>

QueryWire == {LINE_COVER \o <<CR>>, LINE_DATE_ACK \o <<CR>>, LINE_DATE_ACK \o <<LF>>}
\* A line on which no line begins with "@I C ".
SilentWire == {LINE_LIGHT \o <<CR>>, LINE_DATE_ACK \o <<CR>>, LINE_DATE_ACK \o <<LF>>}
ListenerWire == {LINE_COVER \o <<CR>>, LINE_BYPASS_ACK \o <<CR>>, LINE_BAD_ACK \o <<CR>>,
                 LINE_BYPASS \o <<CR>>}
LINE_LOGIN_ACK == <<"@", "A", SP, "P">>
LoginWire == {LINE_LOGIN_ACK \o <<CR>>, LINE_LIGHT \o <<CR>>}
\* A line that never delivers "@A P".
NoAckWire == {LINE_DATE_ACK \o <<CR>>, LINE_LIGHT \o <<CR>>}
ByteWire == {<<"@">>, <<"a">>, <<SP>>, <<CR>>, <<LF>>, <<LEAD>>, <<CONT>>}

\* The port and the threads of the serial layer before anything has run.
InitThreads ==
    /\ is_open = TRUE
    /\ rx = <<>>
    /\ tx = <<>>
    /\ q_pc = [t \in Callers |-> "idle"]
    /\ q_attempts = [t \in Callers |-> 0]
    /\ q_buffer = [t \in Callers |-> <<>>]
    /\ q_elapsed = [t \in Callers |-> 0]
    /\ q_waiting = [t \in Callers |-> 0]
    /\ q_result = [t \in Callers |-> NONE]
    /\ q_writes = [t \in Callers |-> 0]
    /\ q_seen = [t \in Callers |-> <<>>]
    /\ q_since_write = [t \in Callers |-> 0]
    /\ s_pc = "idle"
    /\ s_position = NONE
    /\ serial_lock = FREE
    /\ l_buffer = <<>>
    /\ l_waiting = 0
    /\ l_msgs = <<>>
    /\ l_since_date = 0
    /\ l_date_log = <<>>
    /\ l_timer = 0
    /\ dispatched = <<>>
    /\ l_bytes = <<>>
    /\ l_text = <<>>
    /\ l_raised = FALSE
    /\ g_pc = "idle"
    /\ g_attempts = 0
    /\ g_buffer = <<>>
    /\ g_waiting = 0
    /\ g_elapsed = 0
    /\ g_quiet = 0
    /\ g_drain = 0
    /\ g_result = NONE
    /\ g_writes = 0
    /\ g_seen = <<>>

\* The same with the clock of a run: the ticks the listener may see pass.
InitCore ==
    /\ InitThreads
    /\ open_ticks = MaxTicks

\* No HVAC set command and no call of process_update is in progress.
InitHvacIdle ==
    /\ state_lock = FREE
    /\ hvac_states = <<>>
    /\ h_pc = "idle"
    /\ h_setting = NONE
    /\ h_payload = NONE
    /\ h_locals = <<>>
    /\ h_before = <<>>
    /\ u_pc = "idle"
    /\ u_parts = NONE
    /\ u_written = <<>>

\* No bypass command is in progress.
InitBypassIdle ==
    /\ bypass_states = <<>>
    /\ b_pc = "idle"
    /\ b_zone = 0
    /\ b_payload = NONE
    /\ b_before = NONE
    /\ b_command = NONE
    /\ b_success = NONE
    /\ b2_pc = "idle"
    /\ b2_zone = 0
    /\ b2_payload = NONE
    /\ b2_states = NONE
    /\ b_reported = NONE
    /\ b_published = <<>>

\* No zone update is being processed.
InitZonesIdle ==
    /\ z_pc = "idle"
    /\ z_states = <<>>
    /\ z_invert = {}
    /\ z_published = <<>>

\* No call of send_command by a handler of this model is in progress.
InitEncoderIdle ==
    /\ c_pc = "idle"
    /\ c_args = NONE
    /\ c_result = NONE
    /\ c_writes = 0
    /\ c_completed = {}

\* The shutdown handler has not run.
InitLogoutIdle ==
    /\ o_pc = "idle"
    /\ o_result = NONE
    /\ o_writes = 0

\* No state announcement is being handled.
InitAnnounceIdle ==
    /\ a_message = NONE
    /\ a_config = <<>>
    /\ a_states = <<>>
    /\ a_login = <<>>
    /\ a_listener = <<>>

\* The dispatcher has reported and logged nothing.
InitDispatchIdle ==
    /\ l_reports = <<>>
    /\ l_log = <<>>

\* The serial layer alone: no MQTT command arrives and the handlers stay idle.
InitCommon ==
    /\ InitCore
    /\ InitDispatchIdle
    /\ InitAnnounceIdle
    /\ InitHvacIdle
    /\ InitBypassIdle
    /\ InitZonesIdle
    /\ InitEncoderIdle
    /\ InitLogoutIdle

\* One call of query_state, from the cover-stop thread, with no listener running.
InitQuery ==
    /\ InitCommon
    /\ wire = QueryWire
    /\ budget = MaxChunks
    /\ ioFails \in BOOLEAN
    /\ l_pc = "off"

NextQuery ==
    \/ StopCommand
    \/ QWrite("stop")
    \/ QPoll("stop")
    \/ QRead("stop")
    \/ QWake("stop")
    \/ StopQueryReturn
    \/ StopSend
    \/ Deliver
    \/ Tick

SpecQuery == InitQuery /\ [][NextQuery]_vars

\* The state line of another cover, and a line on which it may arrive.
LINE_COVER_OTHER == <<"@", "I", SP, "C", SP, "2", SP, "3", "0">>
OtherCoverWire == {LINE_COVER_OTHER \o <<CR>>, LINE_COVER \o <<CR>>, LINE_DATE_ACK \o <<CR>>}

\* A cover STOP of cover 1 while the bus reports cover 1 and cover 2.
InitQueryOther ==
    /\ InitCommon
    /\ wire = OtherCoverWire
    /\ budget = MaxChunks
    /\ ioFails \in BOOLEAN
    /\ l_pc = "off"

SpecQueryOther == InitQueryOther /\ [][NextQuery]_vars

\* The name line of light 1, and a line on which it may arrive after others:
\* a line neither query waits for, and nothing the cover query waits for.
LINE_NAME == <<"@", "I", SP, "N", SP, "L", SP, "1", SP, "a">>
NameWire == {LINE_NAME \o <<CR>>, LINE_DATE_ACK \o <<CR>>}

\* A run with one query: the call of query_name of the login, or the call of
\* query_state of a cover stop, whichever comes first, with no listener running.
StopCommandAlone == q_pc["name"] = "idle" /\ StopCommand
NameCallAlone == s_pc = "idle" /\ NameCall

InitQueries ==
    /\ InitCommon
    /\ wire = NameWire
    /\ budget = MaxChunks
    /\ ioFails \in BOOLEAN
    /\ l_pc = "off"

NextQueries ==
    \/ StopCommandAlone
    \/ QWrite("stop")
    \/ QPoll("stop")
    \/ QRead("stop")
    \/ QWake("stop")
    \/ StopQueryReturn
    \/ StopSend
    \/ NameCallAlone
    \/ QWrite("name")
    \/ QPoll("name")
    \/ QRead("name")
    \/ QWake("name")
    \/ Deliver
    \/ Tick

SpecQueries == InitQueries /\ [][NextQueries]_vars

\* The same call on a line that delivers no line beginning with "@I C ".
InitQuerySilent ==
    /\ InitCommon
    /\ wire = SilentWire
    /\ budget = MaxSilent
    /\ ioFails \in BOOLEAN
    /\ l_pc = "off"

\* The steps of the thread that runs query_state.
StopThread ==
    \/ QWrite("stop")
    \/ QPoll("stop")
    \/ QRead("stop")
    \/ QWake("stop")
    \/ StopQueryReturn
    \/ StopSend

\* The thread running query_state keeps being scheduled and time passes.
SpecQuerySilent ==
    /\ InitQuerySilent
    /\ [][NextQuery]_vars
    /\ WF_vars(StopThread)
    /\ WF_vars(Tick)

\* One call of login, before any other thread is started.
InitLogin ==
    /\ InitCommon
    /\ wire \in {LoginWire, NoAckWire}
    /\ budget = MaxLogin
    /\ ioFails \in BOOLEAN
    /\ l_pc = "off"

NextLogin ==
    \/ LoginCall
    \/ GWrite
    \/ GAckPoll
    \/ GAckRead
    \/ GDrainPoll
    \/ GDrainRead
    \/ GWake
    \/ LoginTick
    \/ Deliver

SpecLogin == InitLogin /\ [][NextLogin]_vars

\* The steps of the thread that runs login.
LoginThread ==
    \/ GWrite
    \/ GAckPoll
    \/ GAckRead
    \/ GDrainPoll
    \/ GDrainRead
    \/ GWake

\* The thread running login keeps being scheduled, and time does not stand still
\* over its sleeps.
SpecLoginFair ==
    /\ InitLogin
    /\ [][NextLogin]_vars
    /\ WF_vars(LoginThread)
    /\ SF_vars(LoginTick)

\* The listener alone on a line that delivers single bytes.
InitFramer ==
    /\ InitCommon
    /\ wire = ByteWire
    /\ budget = MaxBytes
    /\ ioFails = FALSE
    /\ l_pc = "top"


NextFramer ==
    \/ LTop
    \/ LAcquire
    \/ LInWaiting
    \/ LRead
    \/ LFrame
    \/ LDispatch
    \/ LIdleWake
    \/ Deliver

SpecFramer == InitFramer /\ [][NextFramer]_vars

LoopWire == {LINE_BYPASS_ACK \o <<CR>>, LINE_BAD_ACK \o <<CR>>, LINE_BYPASS \o <<CR>>}

\* The listener thread and the shutdown handler, on a port whose calls may raise.
InitLoop ==
    /\ InitCommon
    /\ wire = LoopWire
    /\ budget = MaxLoop
    /\ ioFails \in BOOLEAN
    /\ l_pc = "top"

NextLoop ==
    \/ LTop
    \/ LDate
    \/ LAcquire
    \/ LInWaiting
    \/ LRead
    \/ LFrame
    \/ LDispatch
    \/ LQueryReturn
    \/ LIdleWake
    \/ LBackoffWake
    \/ QWrite("listener")
    \/ QPoll("listener")
    \/ QRead("listener")
    \/ QWake("listener")
    \/ Deliver
    \/ Close
    \/ Tick

SpecLoop == InitLoop /\ [][NextLoop]_vars

\* The steps of the listener thread, its re-query of the bypass states included.
ListenerThread ==
    \/ LTop
    \/ LDate
    \/ LAcquire
    \/ LInWaiting
    \/ LRead
    \/ LFrame
    \/ LDispatch
    \/ LQueryReturn
    \/ LIdleWake
    \/ LBackoffWake
    \/ QWrite("listener")
    \/ QPoll("listener")
    \/ QRead("listener")
    \/ QWake("listener")

\* The listener thread keeps being scheduled and time passes.
SpecLoopFair ==
    /\ InitLoop
    /\ [][NextLoop]_vars
    /\ WF_vars(ListenerThread)
    /\ WF_vars(Tick)

\* The listener thread and one cover-stop thread on a port whose calls succeed.
Init ==
    /\ InitCommon
    /\ wire = ListenerWire
    /\ budget = MaxLines
    /\ ioFails = FALSE
    /\ l_pc = "top"

Next ==
    \/ LTop
    \/ LDate
    \/ LAcquire
    \/ LInWaiting
    \/ LRead
    \/ LFrame
    \/ LDispatch
    \/ LQueryReturn
    \/ LIdleWake
    \/ LBackoffWake
    \/ \E t \in Threads : QWrite(t) \/ QPoll(t) \/ QRead(t) \/ QWake(t)
    \/ StopCommand
    \/ StopQueryReturn
    \/ StopSend
    \/ Deliver
    \/ Tick

Spec == Init /\ [][Next]_vars

\* The zones of a zone update.
MaxZones == 3

\* The characters of a zone states string: the four of the protocol and another.
ZoneChars == {"O", "N", "C", "E", "X"}

\* The zone states strings of one to MaxZones zones.
ZoneStrings == UNION {[1..n -> ZoneChars] : n \in 1..MaxZones}

\* A port on which nothing arrives, and no listener.
InitSilentPort ==
    /\ InitCore
    /\ InitDispatchIdle
    /\ wire = {}
    /\ budget = 0
    /\ l_pc = "off"

\* The same, with no state announcement to handle.
InitQuietPort ==
    /\ InitSilentPort
    /\ InitAnnounceIdle

\* One @I Z message handed to process_zone_update, under any configuration of
\* the inverted zones.
InitZones ==
    /\ InitQuietPort
    /\ ioFails = FALSE
    /\ InitHvacIdle
    /\ InitBypassIdle
    /\ InitEncoderIdle
    /\ InitLogoutIdle
    /\ z_pc = "idle"
    /\ z_states \in ZoneStrings
    /\ z_invert \in SUBSET (1..MaxZones)
    /\ z_published = <<>>

NextZones ==
    \/ ZCall
    \/ ZPublish
    \/ ZReturn

SpecZones == InitZones /\ [][NextZones]_vars

\* One call of send_command with any of its arguments given or left out, on a
\* port whose calls may raise.
InitEncoder ==
    /\ InitQuietPort
    /\ ioFails \in BOOLEAN
    /\ InitHvacIdle
    /\ InitBypassIdle
    /\ InitZonesIdle
    /\ InitEncoderIdle
    /\ InitLogoutIdle

NextEncoder ==
    \/ CCall
    \/ CSend
    \/ Close

SpecEncoder == InitEncoder /\ [][NextEncoder]_vars

LINE_LOGOUT_ACK == <<"@", "A", SP, "O">>
\* What the bus may send around a logout.
LogoutWire == {LINE_LOGOUT_ACK \o <<CR>>, LINE_DATE_ACK \o <<CR>>, LINE_LIGHT \o <<CR>>}

\* The shutdown handler: logout, and the port closed, while the bus goes on
\* sending; no other thread reads the port.
InitLogout ==
    /\ InitCore
    /\ InitDispatchIdle
    /\ InitAnnounceIdle
    /\ wire = LogoutWire
    /\ budget = MaxChunks
    /\ ioFails \in BOOLEAN
    /\ l_pc = "off"
    /\ InitHvacIdle
    /\ InitBypassIdle
    /\ InitZonesIdle
    /\ InitEncoderIdle
    /\ InitLogoutIdle

NextLogout ==
    \/ LogoutCall
    \/ LogoutWrite
    \/ Deliver
    \/ Close

SpecLogout == InitLogout /\ [][NextLogout]_vars

\* The snapshots process_login_bypass may have stored (`[NY]+`, or nothing).
BypassSnapshots ==
    {<<>>,
     NoneBypassed(ZONE_COUNT),
     [NoneBypassed(ZONE_COUNT) EXCEPT ![3] = "Y"],
     [NoneBypassed(ZONE_COUNT) EXCEPT ![1] = "Y", ![ZONE_COUNT] = "Y"],
     [i \in 1..ZONE_COUNT |-> "Y"],
     [NoneBypassed(ZONE_COUNT - 1) EXCEPT ![3] = "Y"],
     [NoneBypassed(ZONE_COUNT + 1) EXCEPT ![3] = "Y"]}

\* One bypass command from MQTT, on a port whose calls may raise.
InitBypass ==
    /\ InitQuietPort
    /\ ioFails \in BOOLEAN
    /\ InitHvacIdle
    /\ InitZonesIdle
    /\ InitEncoderIdle
    /\ InitLogoutIdle
    /\ bypass_states \in BypassSnapshots
    /\ b_pc = "idle"
    /\ b_zone = 0
    /\ b_payload = NONE
    /\ b_before = NONE
    /\ b_command = NONE
    /\ b_success = NONE
    /\ b2_pc = "idle"
    /\ b2_zone = 0
    /\ b2_payload = NONE
    /\ b2_states = NONE
    /\ b_reported = NONE
    /\ b_published = <<>>

NextBypass ==
    \/ BCall
    \/ BAcquire
    \/ BRun
    \/ BLoginReport
    \/ BListenerReport
    \/ BRequeryReport

SpecBypass == InitBypass /\ [][NextBypass]_vars

\* The records of HVAC 1 the login may have left: none, one that only a
\* temperature update has written, and the one a set command or an update of
\* the listener has written.
HvacRecords ==
    {<<>>,
     SetKey(<<>>, 1, SetKey(<<>>, "current_temperature", <<"2", "1", ".", "5">>)),
     SetKey(<<>>, 1, [heating_setpoint |-> 220, cooling_setpoint |-> 240,
                      fan |-> "off", mode |-> "cool"])}

\* One HVAC set command from MQTT and one @I H update of the listener, on a
\* port whose calls may raise.
InitHvac ==
    /\ InitQuietPort
    /\ ioFails \in BOOLEAN
    /\ InitBypassIdle
    /\ InitZonesIdle
    /\ InitEncoderIdle
    /\ InitLogoutIdle
    /\ state_lock = FREE
    /\ hvac_states \in HvacRecords
    /\ h_pc = "idle"
    /\ h_setting = NONE
    /\ h_payload = NONE
    /\ h_locals = <<>>
    /\ h_before = <<>>
    /\ u_pc = "idle"
    /\ u_parts = NONE
    /\ u_written = <<>>

NextHvac ==
    \/ HCall
    \/ HAcquire1
    \/ HSection1
    \/ HSend
    \/ HAcquire2
    \/ HSection2
    \/ UCall
    \/ UAcquire
    \/ UWrite

SpecHvac == InitHvac /\ [][NextHvac]_vars

\* The lines of a dispatcher run.
MaxDispatch == 2

\* Messages of the bus used in the dispatcher runs.
MSG_NACK == <<"@", "N", SP, "S", SP, "1", SP, "4">>
MSG_NACK_UNKNOWN == <<"@", "N", SP, "L", SP, "1", SP, "9">>
MSG_NACK_SHORT == <<"@", "N", SP, "L", SP, "1">>
MSG_HVAC_ACK == <<"@", "A", SP, "H", SP, "1">>
MSG_OTHER == <<"@", "V", SP, "1">>
MSG_INFO_OTHER == <<"@", "I", SP, "X", SP, "1", SP, "2">>
MSG_LIGHT == <<"@", "I", SP, "L", SP, "3", SP, "1", "0", "0">>
MSG_SWITCH == <<"@", "I", SP, "R", SP, "5", SP, "O">>

\* Single messages, and two messages in one raw line, in both orders.
DispatchWire ==
    {MSG_NACK \o <<CR>>, MSG_NACK_UNKNOWN \o <<CR>>, MSG_NACK_SHORT \o <<CR>>,
     MSG_HVAC_ACK \o <<CR>>, MSG_OTHER \o <<CR>>, MSG_INFO_OTHER \o <<CR>>,
     MSG_LIGHT \o MSG_SWITCH \o <<CR>>, MSG_SWITCH \o MSG_LIGHT \o <<CR>>}

\* The listener alone on a port whose calls succeed, on a line that delivers
\* whole raw lines.
InitDispatch ==
    /\ InitCommon
    /\ wire = DispatchWire
    /\ budget = MaxDispatch
    /\ ioFails = FALSE
    /\ l_pc = "top"

NextDispatch ==
    \/ LTop
    \/ LDate
    \/ LAcquire
    \/ LInWaiting
    \/ LRead
    \/ LFrame
    \/ LDispatch
    \/ LIdleWake
    \/ LBackoffWake
    \/ Deliver
    \/ Tick

SpecDispatch == InitDispatch /\ [][NextDispatch]_vars

\* The same run with a listener thread that keeps running and a clock that
\* keeps ticking.
SpecDispatchFair ==
    /\ InitDispatch
    /\ [][NextDispatch]_vars
    /\ WF_vars(ListenerThread)
    /\ WF_vars(Tick)

\* The @I state announcements of the bus: lights (a dimmer at a level),
\* switches, an HVAC (setpoints with and without decimals), a temperature, the
\* security state, the zones (closed and open ones, and ones in error or
\* normal) and the bypass states of the zones.
Announcements ==
    {<<"@", "I", SP, "L", SP, "1", SP, "0">>,
     <<"@", "I", SP, "L", SP, "2", SP, "5", "0">>,
     <<"@", "I", SP, "R", SP, "1", SP, "O">>,
     <<"@", "I", SP, "R", SP, "2", SP, "C">>,
     <<"@", "I", SP, "H", SP, "1", SP, "2", "0", ".", "0", SP, "2", "1", ".", "0", SP, "S", SP, "H">>,
     <<"@", "I", SP, "H", SP, "1", SP, "2", "0", SP, "2", "1", SP, "R", SP, "A">>,
     <<"@", "I", SP, "T", SP, "1", SP, "2", "1", ".", "5", SP, "H">>,
     <<"@", "I", SP, "S", SP, "1", SP, "A">>,
     <<"@", "I", SP, "S", SP, "1", SP, "D">>,
     <<"@", "I", SP, "Z", SP, "1", SP, "C", "O", "C", "O">>,
     <<"@", "I", SP, "Z", SP, "1", SP, "O", "C", "E", "N">>,
     <<"@", "I", SP, "B", SP, "1", SP, "N", "N", "Y", "N", "N", "N", "N", "N", "N", "N", "N", "N", "N", "N", "N", "N">>,
     <<"@", "I", SP, "B", SP, "1", SP, "N", "N", "N", "N", "N", "N", "N", "N", "N", "N", "N", "N", "N", "N", "N", "N">>}

\* The configurations: light 2 a dimmer or not, zone 1 inverted or not.
AnnounceConfigs ==
    [dimmer_lights : {{}, {2}}, zones_normal_as_off : {{}, {1}}]

\* app_state when the announcement arrives: no HVAC record or the one of HVAC
\* 1, no zone bypassed or zone 5.
AnnounceStates ==
    [hvac_states : {<<>>,
                    SetKey(<<>>, 1, [heating_setpoint |-> Number(220),
                                     cooling_setpoint |-> Number(240),
                                     fan |-> Word("off"), mode |-> Word("cool")])},
     bypass_states : {NoneBypassed(ZONE_COUNT),
                      [NoneBypassed(ZONE_COUNT) EXCEPT ![5] = "Y"]}]

\* One state announcement, handed to its login-time handler and to its
\* listener-time handler, each from the same app_state.
InitAnnounce ==
    /\ InitSilentPort
    /\ ioFails = FALSE
    /\ InitHvacIdle
    /\ InitBypassIdle
    /\ InitZonesIdle
    /\ InitEncoderIdle
    /\ InitLogoutIdle
    /\ a_message \in Announcements
    /\ a_config \in AnnounceConfigs
    /\ a_states \in AnnounceStates
    /\ a_login = <<>>
    /\ a_listener = <<>>

NextAnnounce ==
    \/ ALogin
    \/ AListener

SpecAnnounce == InitAnnounce /\ [][NextAnnounce]_vars

\* ----------------------------------------------------------------- claims

\* The listener is inside its read step (in_waiting and read, under the lock).
ListenerInReadStep == l_pc \in {"waiting", "read"}

\* C1: at most one logical operation touches the serial line: no query is
\* between the write of its command and the end of that attempt's read loop
\* while the listener is inside its read step.
C1_OneOperationOnTheLine == ~(ListenerInReadStep /\ QInAttempt("stop"))

RECURSIVE CompleteLines(_)
\* The terminator-ended lines of a text, each stripped.
CompleteLines(text) ==
    LET pos == FindAny(text, Terminators)
    IN  IF pos = 0 THEN <<>>
        ELSE <<Strip(SubSeq(text, 1, pos - 1))>> \o CompleteLines(SubSeq(text, pos + 1, Len(text)))

\* The complete lines of a text that start with the prefix.
MatchingLines(text, prefix) == SelectSeq(CompleteLines(text), LAMBDA l : StartsWith(l, prefix))

\* C2: a complete line starting with "@I {type} " that the attempt has read
\* before its timeout is returned: no attempt times out having read one, and
\* the value returned is the first such line's tokens.
C2_MatchingLineIsReturned ==
    /\ (q_pc["stop"] = "poll" /\ q_elapsed["stop"] >= QUERY_TIMEOUT)
           => MatchingLines(q_seen["stop"], ExpectedPrefix("stop")) = <<>>
    /\ (q_pc["stop"] = "done" /\ q_result["stop"] # NONE)
           => /\ MatchingLines(q_seen["stop"], ExpectedPrefix("stop")) # <<>>
              /\ q_result["stop"]
                   = SplitWS(Head(MatchingLines(q_seen["stop"], ExpectedPrefix("stop"))))

\* No chunk the bus may deliver holds the prefix the query waits for.
NoMatchOnWire == \A c \in wire : ~Contains(c, ExpectedPrefix("stop"))

\* C3: on a line that never delivers a matching line query_state calls write
\* exactly max_retries times and returns None, also when calls raise, and it
\* does return.
C3_QueryGivesUp ==
    /\ [](q_writes["stop"] <= QUERY_MAX_RETRIES)
    /\ []((NoMatchOnWire /\ q_pc["stop"] = "done")
            => (q_result["stop"] = NONE /\ q_writes["stop"] = QUERY_MAX_RETRIES))
    /\ (q_pc["stop"] = "write") ~> (q_pc["stop"] = "done")

\* query_state has given up on a silent line, and some of its writes raised.
C3_Witness ==
    /\ NoMatchOnWire
    /\ q_pc["stop"] = "done"
    /\ q_result["stop"] = NONE
    /\ Len(tx) < q_writes["stop"]

\* The listener has finished an iteration that read bytes, without an exception so far.
FramerAtRest == l_pc = "top" /\ ~l_raised

\* C4: however the bytes were cut into reads, the messages handed to the
\* dispatcher are those of the whole byte sequence arriving in one read.
C4_ChunkIndependence == FramerAtRest => dispatched = FrameAll(Decode(l_bytes))

RECURSIVE MessagesOf(_)
\* The messages of a sequence of stripped lines, the empty lines skipped.
MessagesOf(lines) ==
    IF lines = <<>> THEN <<>>
    ELSE (IF Head(lines) = <<>> THEN <<>> ELSE LineMessages(Head(lines)))
             \o MessagesOf(Tail(lines))

\* s is the beginning of t.
IsPrefix(s, t) == Len(s) <= Len(t) /\ SubSeq(t, 1, Len(s)) = s

\* The part of a text after its last terminator.
AfterLastTerminator(text) ==
    LET last == IF \E i \in 1..Len(text) : text[i] \in Terminators
                THEN CHOOSE i \in 1..Len(text) :
                         text[i] \in Terminators
                         /\ \A j \in (i + 1)..Len(text) : text[j] \notin Terminators
                ELSE 0
    IN  SubSeq(text, last + 1, Len(text))

\* C5: the messages handed to the dispatcher are messages of lines whose
\* terminator has been read, in order, and between iterations the buffer is
\* exactly the text read after the last terminator.
C5_NoPartialMessage ==
    /\ IsPrefix(dispatched, MessagesOf(CompleteLines(l_text)))
    /\ l_pc \in {"top", "lock", "waiting", "read", "idle"}
           => l_buffer = AfterLastTerminator(l_text)

\* A message has been dispatched and the text after its terminator is kept.
C5_Witness == l_pc = "top" /\ dispatched # <<>> /\ l_buffer # <<>>

\* No chunk the bus may deliver holds the acknowledgment of the login.
NoAckOnWire == \A c \in wire : ~Contains(c, SUCCESS_RESPONSE_PREFIX)

GAwaitingAck == g_pc \in {"ack", "ackRead", "ackSleep"}
GDraining == g_pc \in {"drain", "drainRead", "drainSleep"}

\* C6: on a line that never delivers "@A P", login calls write exactly
\* max_retries times, waits no longer than the ack timeout after a write and no
\* shorter unless a call raised, and returns None.
C6_LoginGivesUp ==
    /\ [](g_writes <= LOGIN_MAX_RETRIES)
    /\ [](GAwaitingAck => g_elapsed <= LOGIN_TIMEOUT)
    /\ [][(g_pc = "ack" /\ g_attempts' # g_attempts /\ ~ioFails)
              => g_elapsed >= LOGIN_TIMEOUT]_vars
    /\ []((NoAckOnWire /\ g_pc = "done")
            => (g_result = NONE /\ g_writes = LOGIN_MAX_RETRIES))
    /\ (NoAckOnWire /\ g_pc = "write") ~> (g_pc = "done")

\* login has given up on a line without acknowledgment after waiting out every attempt.
C6_Witness ==
    /\ NoAckOnWire
    /\ g_pc = "done"
    /\ g_result = NONE
    /\ Len(tx) = LOGIN_MAX_RETRIES
    /\ ~ioFails

\* The state of the login sequence of the spec that a position of login stands for.
Phase(pc, result) ==
    IF pc = "idle" THEN "Idle"
    ELSE IF pc \in {"write", "ack", "ackRead", "ackSleep"} THEN "AwaitingAck"
    ELSE IF pc \in {"drain", "drainRead", "drainSleep"} THEN "DrainingAnnouncements"
    ELSE IF result # NONE THEN "LoggedIn"
    ELSE "Failed"

\* C7: login drains only after "@A P" was read in the current attempt, returns a
\* response only from the drain, and the response is all the text read in that
\* attempt, the acknowledgment included.  (An attempt in which a call raises
\* during the drain is abandoned: the next attempt awaits the acknowledgment anew.)
C7_LoginOrder ==
    /\ [](GDraining => Contains(g_seen, LINE_LOGIN_ACK))
    /\ [](Phase(g_pc, g_result) = "LoggedIn"
            => (Contains(g_result, LINE_LOGIN_ACK) /\ g_result = g_seen))
    /\ [][LET from == Phase(g_pc, g_result)
              to == Phase(g_pc', g_result')
          IN  from # to =>
                /\ to = "AwaitingAck" => from \in {"Idle", "DrainingAnnouncements"}
                /\ to = "DrainingAnnouncements" => from = "AwaitingAck"
                /\ to = "LoggedIn" => from = "DrainingAnnouncements"
                /\ to # "Idle"]_vars

\* login has succeeded at its second attempt and returns the announcement it drained.
C7_Witness ==
    /\ Phase(g_pc, g_result) = "LoggedIn"
    /\ g_attempts = 1
    /\ Contains(g_result, LINE_LIGHT)

\* C8: the drain never runs past post_ack_timeout nor past the first test that
\* finds more than a second of silence, it ends for one of these two reasons
\* only, and every read of the drain restarts the silence.
C8_DrainEnds ==
    /\ [](GDraining => (g_drain <= POST_ACK_TIMEOUT /\ g_quiet <= QUIET_LIMIT + 1))
    /\ [](Phase(g_pc, g_result) = "LoggedIn"
            => (g_quiet > QUIET_LIMIT \/ g_drain >= POST_ACK_TIMEOUT))
    /\ [][(g_pc = "drainRead" /\ g_pc' = "drain") => g_quiet' = 0]_vars

\* Traffic that never paused for a second was cut off by post_ack_timeout.
C8_Witness ==
    /\ Phase(g_pc, g_result) = "LoggedIn"
    /\ g_drain >= POST_ACK_TIMEOUT
    /\ g_quiet <= QUIET_LIMIT

\* C9: listen_for_updates returns only from the top of an iteration that finds
\* the port closed; an exception in an iteration leads to the backoff, and the
\* backoff to the top of the next iteration.
C9_OnlyClosureEndsTheLoop ==
    /\ [][(l_pc' = "returned" /\ l_pc # "returned") => (l_pc = "top" /\ ~is_open)]_vars
    /\ [][(l_raised' /\ ~l_raised) => l_pc' = "backoff"]_vars
    /\ [][(l_pc = "backoff" /\ l_pc' # "backoff")
              => (l_pc' = "top" /\ l_timer >= ERROR_BACKOFF)]_vars

\* After an exception the loop has gone on to a further iteration on the open port.
C9_Witness == l_raised /\ is_open /\ l_pc = "waiting"

\* C10: once the port is closed the listener returns, whatever it was doing.
C10_ClosedPortEndsTheLoop == (~is_open) ~> (l_pc = "returned")

\* The listener has returned from a port that was closed during its re-query of
\* the bypass states, whose remaining attempts raised.
C10_Witness ==
    /\ l_pc = "returned"
    /\ ~ioFails
    /\ q_writes["listener"] = QUERY_MAX_RETRIES

\* The tokens of a message.
TokensOf(msg) == SplitWS(msg)

\* A message whose first token is "@N" and that has at least three tokens.
IsNack(msg) == Len(TokensOf(msg)) >= 3 /\ TokensOf(msg)[1] = <<"@", "N">>

\* C14: every dispatched message whose first token is "@N" and that has at
\* least three tokens is handed to report_error_state exactly once, with the
\* description its code maps to: the reports are, in order, those of the @N
\* messages dispatched.
C14_EveryNackReported ==
    LET nacks == SelectSeq(dispatched, IsNack)
    IN  /\ Len(l_reports) = Len(nacks)
        /\ \A i \in 1..Len(nacks) :
               Len(TokensOf(nacks[i])) >= 4
                   => IsPrefix(ErrorDescription(TokensOf(nacks[i])[4]), l_reports[i])

\* The classification rules of the dispatcher: an acknowledgment of two tokens,
\* or of three for a light, switch, cover or security or for bypass 1; an @N of
\* at least three tokens; an @I of at least four with a known type letter.
Classified(msg) ==
    LET parts == TokensOf(msg)
    IN  \/ /\ parts[1] = <<"@", "A">>
           /\ \/ Len(parts) = 2
              \/ /\ Len(parts) = 3
                 /\ \/ parts[2] \in {<<"L">>, <<"R">>, <<"C">>, <<"S">>}
                    \/ parts[2] = <<"B">> /\ parts[3] = <<"1">>
        \/ Len(parts) >= 3 /\ parts[1] = <<"@", "N">>
        \/ Len(parts) >= 4 /\ parts[1] = <<"@", "I">> /\ parts[2] \in InfoTypes

\* C15: every dispatched message that matches none of the classification rules
\* is logged as not processed, and the listener goes on.
C15_UnrecognizedIsLogged ==
    /\ \A i \in 1..Len(dispatched) :
           ~Classified(dispatched[i]) => \E j \in 1..Len(l_log) : l_log[j] = dispatched[i]
    /\ l_pc # "returned"

RECURSIVE AtMessages(_)
\* The '@'-prefixed messages concatenated in a raw line that begins with '@'.
AtMessages(line) ==
    IF line = <<>> THEN <<>>
    ELSE LET next == IF \E i \in 2..Len(line) : line[i] = "@"
                     THEN CHOOSE i \in 2..Len(line) :
                              line[i] = "@" /\ \A j \in 2..(i - 1) : line[j] # "@"
                     ELSE Len(line) + 1
         IN  <<SubSeq(line, 1, next - 1)>> \o AtMessages(SubSeq(line, next, Len(line)))

RECURSIVE AllAtMessages(_)
\* The messages of a sequence of raw lines.
AllAtMessages(lines) ==
    IF lines = <<>> THEN <<>>
    ELSE AtMessages(Head(lines)) \o AllAtMessages(Tail(lines))

\* The listener is between iterations and has framed all the text it has read.
ListenerAtRest == l_pc = "top" /\ l_buffer = <<>>

\* C18: a raw line of k concatenated '@'-prefixed messages yields k dispatched
\* messages, in line order, each with the tokens of the original message: once
\* the lines read are framed, the messages dispatched are those of the lines.
C18_ConcatenatedMessagesDispatched ==
    ListenerAtRest =>
        LET expected == AllAtMessages(CompleteLines(l_text))
        IN  /\ Len(dispatched) = Len(expected)
            /\ \A i \in 1..Len(expected) : TokensOf(dispatched[i]) = TokensOf(expected[i])

\* How many times the byte b occurs in the encoding of a text.
ByteCount(text, b) ==
    Cardinality({i \in 1..Len(text) :
                     text[i] = b \/ (text[i] = EACUTE /\ b \in {LEAD, CONT})})

RECURSIVE ByteCountAll(_, _)
\* How many times the byte b occurs in a sequence of messages.
ByteCountAll(msgs, b) ==
    IF msgs = <<>> THEN 0 ELSE ByteCount(Head(msgs), b) + ByteCountAll(Tail(msgs), b)

\* The bytes of the line other than the terminators.
NonTerminatorBytes == {"@", "a", SP, LEAD, CONT}

\* C20: the framer drops no byte except terminators: every non-terminator byte
\* of the text appended to the buffer is in a message handed to the dispatcher,
\* in a message of the current line about to be handed to it, or still in the
\* buffer.  (The bytes that the decoding of a read drops are not counted.)
C20_NoByteDropped ==
    \A b \in NonTerminatorBytes :
        ByteCount(l_text, b)
            <= ByteCountAll(dispatched, b) + ByteCountAll(l_msgs, b) + ByteCount(l_buffer, b)

\* The Zone Character Rule: O is ON, N and C are OFF, each the other way round
\* for an inverted zone; E is ERROR and anything else UNKNOWN.
ZoneCharacterRule(c, inverted) ==
    IF c = "O" THEN (IF inverted THEN "OFF" ELSE "ON")
    ELSE IF c \in {"N", "C"} THEN (IF inverted THEN "ON" ELSE "OFF")
    ELSE IF c = "E" THEN "ERROR"
    ELSE "UNKNOWN"

\* C13: the state published for each zone of a zone update is the one the Zone
\* Character Rule gives for its character and its inversion.
C13_ZoneCharacterRule ==
    \A zone_id \in 1..Len(z_published) :
        z_published[zone_id] = ZoneCharacterRule(z_states[zone_id], zone_id \in z_invert)

\* The four fields of an HVAC set command.
HvacFields == {"heating_setpoint", "cooling_setpoint", "fan_state", "mode"}

\* C16: send_command for entity type H with any of heating_setpoint,
\* cooling_setpoint, fan_state or mode missing writes nothing to the transport
\* (write is not even called) and returns False.
C16_IncompleteHvacNotSent ==
    (c_pc = "done" /\ c_args.entity_type = "H" /\ \E f \in HvacFields : f \notin DOMAIN c_args)
        => c_result = FALSE /\ c_writes = 0 /\ tx = <<>>

\* send_command has returned from an HVAC call that lacks only the mode, on an
\* open port whose calls succeed.
C16_Witness ==
    /\ c_pc = "done"
    /\ c_args.entity_type = "H"
    /\ HvacFields \ DOMAIN c_args = {"mode"}
    /\ is_open /\ ~ioFails

\* C17: logout writes the logout command exactly once, reads nothing from the
\* transport and waits for no response: whatever the bus has or has not sent,
\* its write is ready to run, no step of it takes bytes from the input, and it
\* returns True with the command written, or False when the write raised.
C17_LogoutFireAndForget ==
    /\ [](o_pc = "write" => ENABLED LogoutWrite)
    /\ [][o_pc' # o_pc => rx' = rx /\ wire' = wire /\ budget' = budget]_vars
    /\ [](o_pc = "done" =>
              /\ o_writes = 1
              /\ o_result \in BOOLEAN
              /\ tx = IF o_result THEN <<LogoutCommand>> ELSE <<>>)

\* logout has returned True although the bus had sent nothing when it wrote.
C17_Witness == o_pc = "done" /\ o_result = TRUE /\ rx = <<>> /\ budget = MaxChunks

\* The snapshot a bypass command starts from: the stored one, or sixteen N when
\* the stored one is empty or not sixteen characters long.
BypassBase(stored) ==
    IF stored # <<>> /\ Len(stored) = 16 THEN stored ELSE [i \in 1..16 |-> "N"]

\* A snapshot with only the character of zone z changed, to c.
OnlyZoneSet(snapshot, z, c) ==
    [i \in 1..Len(snapshot) |-> IF i = z THEN c ELSE snapshot[i]]

\* C12: handle_bypass_command for a zone of 1..16 with payload ON or OFF sends
\* "@S B 1 <s>", <s> being the last stored snapshot (sixteen N if that was empty
\* or not of length 16) with only the character of the zone set, to Y for ON and
\* to N for OFF; the command is on the line unless the write raised.
C12_BypassCommand ==
    (b_pc = "done" /\ b_payload \in {"ON", "OFF"}) =>
        LET s == OnlyZoneSet(BypassBase(b_before), b_zone,
                             IF b_payload = "ON" THEN "Y" ELSE "N")
            command == <<"@", "S", SP, "B", SP, "1", SP>> \o s \o <<CR>>
        IN  /\ b_command = s
            /\ tx = <<command>> \/ (ioFails /\ tx = <<>>)

\* A command for a zone has been sent from a stored snapshot of the wrong
\* length that had a zone bypassed.
C12_Witness ==
    /\ b_pc = "done"
    /\ b_payload = "ON"
    /\ b_before # <<>> /\ Len(b_before) # 16
    /\ tx # <<>>

\* C11: no update of the record of an HVAC is lost when the listener and an
\* MQTT set command race: once handle_set_command has returned, every field
\* process_update wrote after handle_set_command read the record still has the
\* value process_update wrote.
C11_NoLostUpdate ==
    (h_pc = "done" /\ DOMAIN u_written # {}) =>
        \A key \in DOMAIN u_written : hvac_states[1][key] = u_written[key]

\* C19: the codes send_command puts in the HVAC set command for a mode of
\* auto, heat, cool, off, economy, normal and a fan of on, off are decoded by
\* process_update, from the @I H echo of the command, to that mode and that fan.
C19_ModeFanRoundTrip ==
    (/\ u_pc = "done"
     /\ DOMAIN h_locals # {}
     /\ tx # <<>>
     /\ u_parts = SplitWS(<<"@", "I">> \o SubSeq(tx[1], 3, Len(tx[1])))
     /\ h_locals.mode \in {"auto", "heat", "cool", "off", "economy", "normal"}
     /\ h_locals.fan_state \in {"on", "off"}) =>
        /\ u_written.mode = h_locals.mode
        /\ u_written.fan = h_locals.fan_state

\* process_update has decoded the echo of a command that set the mode to heat
\* with the fan off.
C19_Witness ==
    /\ u_pc = "done"
    /\ tx # <<>>
    /\ u_parts = SplitWS(<<"@", "I">> \o SubSeq(tx[1], 3, Len(tx[1])))
    /\ h_setting = "mode"
    /\ h_locals.mode = "heat"
    /\ h_locals.fan_state = "off"
    /\ u_written.mode = "heat"

\* C21: send_command never raises on a transport error: it returns, with False
\* if write or flush raised, and with True only when write and flush both
\* completed.
C21_SendNeverRaises ==
    c_pc = "done" =>
        /\ c_result \in BOOLEAN
        /\ c_result = TRUE <=> c_completed = {"write", "flush"}
        /\ (c_writes = 1 /\ c_completed # {"write", "flush"}) => c_result = FALSE

\* send_command has returned False after a flush that raised.
C21_Witness ==
    /\ c_pc = "done"
    /\ c_writes = 1
    /\ c_completed = {"write"}
    /\ c_result = FALSE

\* C22: after the gateway has received a bypass report (at login, in an @I B
\* message of the listener, or as the answer of the bypass re-query) the stored
\* snapshot is the reported string, and a bypass-set command computed then
\* differs from the reported string in the addressed zone only.
C22_SnapshotIsLastReport ==
    /\ (b_pc = "idle" /\ b_reported # NONE /\ b_reported = LoginBypassGroup(b_reported))
           => bypass_states = b_reported
    /\ (b_pc = "done" /\ b_command # NONE /\ b_reported # NONE
        /\ b_reported = LoginBypassGroup(b_reported))
           => \A i \in 1..16 : i # b_zone => b_command[i] = b_reported[i]

\* The record an HVAC set command should leave: the record found, with the one
\* field of the setting at its new value.
C23_Expected ==
    (h_setting :> (IF h_setting \in {"heating_setpoint", "cooling_setpoint"}
                   THEN float(h_payload) ELSE AsString(lower(h_payload))))
    @@ h_before

\* C23: an HVAC set command for one setting changes only that field of the
\* stored record, and the command written carries the new value of that field
\* and the last known values of the others (no @I H update arriving meanwhile).
C23_OnlyTheSettingChanges ==
    (h_pc = "done" /\ u_pc = "idle") =>
        /\ \A key \in {"heating_setpoint", "cooling_setpoint", "fan", "mode"} :
               hvac_states[1][key] = C23_Expected[key]
        /\ tx # <<>> =>
               tx[1] = <<"@", "S", SP, "H", SP, "1", SP>>
                       \o FormatFloat(C23_Expected["heating_setpoint"]) \o <<SP>>
                       \o FormatFloat(C23_Expected["cooling_setpoint"]) \o <<SP>>
                       \o <<FAN_STATE_TO_CODE[C23_Expected["fan"]], SP,
                            HVAC_MODE_TO_CODE[C23_Expected["mode"]], CR>>

\* C24: the serial lock is never held across a sleep: the listener holds it
\* only around its in_waiting/read step and has released it in the idle sleep,
\* while dispatching, and in the backoff of the except branch, also when read
\* raised; no thread sleeps in a query with the lock held.
C24_LockNotHeldAcrossSleep ==
    /\ serial_lock = "listener" => l_pc \in {"waiting", "read"}
    /\ l_pc \in {"idle", "backoff", "dispatch", "query"} => serial_lock = FREE
    /\ \A t \in Threads : q_pc[t] = "sleep" => serial_lock # t

\* The listener is in the backoff after a read that raised, no read having
\* returned before.
C24_Witness ==
    /\ l_pc = "backoff"
    /\ l_waiting > 0
    /\ l_text = <<>>
    /\ l_since_date = 0
    /\ serial_lock = FREE

\* C25: the tokens query_state returns for the cover queried describe that
\* cover: their third token is the entity id of the query, and the position
\* the cover STOP sends again is none that the bus reported for another cover.
C25_AnswerIsOfQueriedEntity ==
    /\ (q_pc["stop"] = "done" /\ q_result["stop"] # NONE)
           => q_result["stop"][3] = <<"1">>
    /\ \A i \in 1..Len(tx) :
           tx[i] # <<"@", "S", SP, "C", SP, "1", SP, "3", "0", CR>>

\* C26: an exception raised while one message is dispatched loses no other
\* message: from some moment on, whether or not more bytes arrive, whenever
\* the listener finds nothing waiting and sleeps, every message of every
\* complete line it has read has been dispatched.
C26_RaiseLosesNoMessage ==
    <>[](l_pc = "idle" => Len(dispatched) = Len(AllAtMessages(CompleteLines(l_text))))

\* The line is quiet for good: nothing waits in the port and the bus delivers
\* no more.
LineQuiet == rx = <<>> /\ budget = 0

\* C27: a query consumes only its own response: every other complete message
\* query_state has read from the port (a line before the match, a line after
\* it in the same read) is dispatched by the listener afterwards; once the line
\* is quiet and the listener has framed all it read, it has been dispatched.
C27_QueryConsumesOnlyItsAnswer ==
    (s_pc = "finished" /\ q_result["stop"] # NONE /\ ListenerAtRest /\ LineQuiet) =>
        \A line \in {CompleteLines(q_seen["stop"])[i] :
                        i \in 1..Len(CompleteLines(q_seen["stop"]))} :
            (line # <<>> /\ SplitWS(line) # q_result["stop"]) =>
                \E j \in 1..Len(dispatched) : dispatched[j] = line

\* The set-position commands for cover 1 among the commands written.
CoverSetCommands ==
    SelectSeq(tx, LAMBDA c : StartsWith(c, <<"@", "S", SP, "C", SP, "1", SP>>))

\* C28: on a cover STOP no set-position command for the cover is written
\* before the state query has returned; then one is written (none only if the
\* write raised), carrying the queried position, or 50 if the query failed.
C28_StopQueriesThenResends ==
    /\ s_pc \in {"idle", "query"} => CoverSetCommands = <<>>
    /\ s_pc = "finished" =>
           LET answer == q_result["stop"]
               position == IF answer # NONE /\ Len(answer) >= 4 THEN answer[4]
                           ELSE <<"5", "0">>
           IN  \/ CoverSetCommands
                      = <<(<<"@", "S", SP, "C", SP, "1", SP>> \o position \o <<CR>>)>>
               \/ ioFails /\ CoverSetCommands = <<>>

\* A cover STOP has written the position the query returned.
C28_Witness ==
    /\ s_pc = "finished"
    /\ q_result["stop"] # NONE
    /\ CoverSetCommands = <<<<"@", "S", SP, "C", SP, "1", SP, "7", CR>>>>

\* C29: a state announcement is handled at login exactly as by the listener:
\* for every @I message of type L, R, H, T, S, Z or B, once both handlers have
\* run from the same app_state, they have decoded the same entity ids and the
\* same state values (what they published is the same) and they leave the same
\* stored state (hvac_states and bypass_states).
C29_LoginHandlesLikeListener ==
    (DOMAIN a_login # {} /\ DOMAIN a_listener # {}) =>
        /\ a_login.published = a_listener.published
        /\ a_login.hvac_states = a_listener.hvac_states
        /\ a_login.bypass_states = a_listener.bypass_states

\* C30: in query_state and query_name the lines that do not match the expected
\* prefix are discarded without resetting the deadline: whatever has been read,
\* a caller goes on waiting (reads again or sleeps) only while less than the
\* timeout has passed since the command of the attempt was written.
C30_DeadlineNotReset ==
    [][\A t \in Callers :
           (q_pc[t] = "poll" /\ q_pc'[t] \in {"read", "sleep"})
               => q_since_write[t] < Timeout(t)]_vars

\* An attempt of query_name has ended at its timeout after it read three lines
\* it was not waiting for.
C30_Witness ==
    /\ ~ioFails
    /\ q_pc["name"] = "write"
    /\ q_attempts["name"] = 1
    /\ q_since_write["name"] = NAME_TIMEOUT
    /\ q_seen["name"] = LINE_DATE_ACK \o <<CR>> \o LINE_DATE_ACK \o <<CR>> \o LINE_DATE_ACK \o <<CR>>

\* ---------------------------------------------------------------------------
\* The periodic date command of listen_for_updates.

\* The ticks of a run of the loop that is long enough for two date commands.
MaxDateTicks == 6

\* What the bus sends during such a run: the acknowledgment of a date command,
\* and an acknowledgment the dispatcher fails on (the loop then backs off).
DateWire == {LINE_DATE_ACK \o <<CR>>, LINE_BAD_ACK \o <<CR>>}

\* The ticks since the loop last wrote a date command, or since it started
\* (`last_time_sent = time.monotonic()` before the loop), read off the clock.
DateElapsed == (IF l_date_log = <<>> THEN MaxDateTicks ELSE l_date_log[Len(l_date_log)]) - open_ticks

InitDate ==
    /\ InitThreads
    /\ open_ticks = MaxDateTicks
    /\ InitDispatchIdle
    /\ InitAnnounceIdle
    /\ InitHvacIdle
    /\ InitBypassIdle
    /\ InitZonesIdle
    /\ InitEncoderIdle
    /\ InitLogoutIdle
    /\ wire = DateWire
    /\ budget = MaxLoop
    /\ ioFails = FALSE
    /\ l_pc = "top"

NextDate ==
    \/ LTop
    \/ LDate
    \/ LAcquire
    \/ LInWaiting
    \/ LRead
    \/ LFrame
    \/ LDispatch
    \/ LIdleWake
    \/ LBackoffWake
    \/ Deliver
    \/ Tick

SpecDate == InitDate /\ [][NextDate]_vars

ACK_LIGHT == <<"@", "A", SP, "L", SP, "1">>
ACK_SWITCH == <<"@", "A", SP, "R", SP, "1">>
ACK_COVER == <<"@", "A", SP, "C", SP, "1">>
ACK_SECURITY == <<"@", "A", SP, "S", SP, "1">>

AckWire ==
    {LINE_BYPASS_ACK \o <<CR>>, ACK_LIGHT \o <<CR>>, ACK_SWITCH \o <<CR>>, ACK_COVER \o <<CR>>,
     ACK_SECURITY \o <<CR>>, LINE_BYPASS \o <<CR>>}

\* The entity types whose acknowledgment is only logged.
LoggedAckTypes == {<<"L">>, <<"R">>, <<"C">>, <<"S">>}

RECURSIVE Occurrences(_, _)
\* How many elements of a sequence equal x.
Occurrences(seq, x) ==
    IF seq = <<>> THEN 0
    ELSE (IF Head(seq) = x THEN 1 ELSE 0) + Occurrences(Tail(seq), x)

\* The listener on a line that delivers acknowledgments, with port calls that
\* may raise.
InitAcks ==
    /\ InitCommon
    /\ wire = AckWire
    /\ budget = MaxLoop
    /\ ioFails \in BOOLEAN
    /\ l_pc = "top"

NextAcks ==
    \/ LTop
    \/ LDate
    \/ LAcquire
    \/ LInWaiting
    \/ LRead
    \/ LFrame
    \/ LDispatch
    \/ LQueryReturn
    \/ LIdleWake
    \/ LBackoffWake
    \/ QWrite("listener")
    \/ QPoll("listener")
    \/ QRead("listener")
    \/ QWake("listener")
    \/ Deliver
    \/ Tick

SpecAcks == InitAcks /\ [][NextAcks]_vars

\* C32: when the dispatcher is handed the acknowledgment "@A B 1" it starts
\* one call of query_state for bypass 1, which writes "@G B 1" at most
\* QUERY_MAX_RETRIES times and after which the message is done with; when it
\* is handed an acknowledgment of three tokens for L, R, C or S it starts no
\* query and writes nothing. So the bus sees no query outside such a call, and
\* at most QUERY_MAX_RETRIES of them for each "@A B 1" dispatched.
C32_BypassAckRequeriesOnce ==
    [][/\ dispatched' # dispatched =>
              \E parts \in {SplitWS(Head(l_msgs))} :
                  /\ parts = <<<<"@", "A">>, <<"B">>, <<"1">>>> =>
                         /\ l_pc' = "query"
                         /\ q_pc'["listener"] = "write"
                         /\ q_attempts'["listener"] = 0
                         /\ q_writes'["listener"] = 0
                         /\ tx' = tx
                  /\ (Len(parts) = 3 /\ parts[1] = <<"@", "A">> /\ parts[2] \in LoggedAckTypes) =>
                         /\ l_pc' \in {"dispatch", "backoff"}
                         /\ q_pc' = q_pc
                         /\ tx' = tx
       /\ (l_pc = "query" /\ tx' # tx) =>
              /\ tx' = Append(tx, <<"@", "G", SP, "B", SP, "1", CR>>)
              /\ q_writes'["listener"] <= QUERY_MAX_RETRIES
       /\ (l_pc = "query" /\ l_pc' # "query") =>
              /\ l_pc' = "dispatch"
              /\ l_msgs' = Tail(l_msgs)
              /\ q_pc'["listener"] = "idle"
       /\ tx' # tx => l_pc \in {"date", "query"}
       /\ Occurrences(tx', <<"@", "G", SP, "B", SP, "1", CR>>)
              <= QUERY_MAX_RETRIES * Occurrences(dispatched', LINE_BYPASS_ACK)]_vars

\* The dispatcher was handed "@A B 1" and an acknowledgment of a light: the
\* re-query of the first has returned after all its attempts, the second
\* left the bus alone.
C32_Witness ==
    /\ dispatched = <<LINE_BYPASS_ACK, ACK_LIGHT>>
    /\ l_pc = "dispatch"
    /\ l_msgs = <<>>
    /\ Occurrences(tx, <<"@", "G", SP, "B", SP, "1", CR>>) = QUERY_MAX_RETRIES

\* ---------------------------------------------------------------------------
\* The values of the HVAC records.

\* The fan states and the modes of the constants' tables.
FanStates == DOMAIN FAN_STATE_TO_CODE
Modes == DOMAIN HVAC_MODE_TO_CODE

\* C33: in every reachable state, the fan of each HVAC record is on or off
\* and its mode is one of auto, heat, cool, off, economy and normal, whatever
\* set commands and @I H updates have been handled.
C33_RecordValuesInTables ==
    \A hvac_id \in DOMAIN hvac_states :
        /\ "fan" \in DOMAIN hvac_states[hvac_id] => hvac_states[hvac_id]["fan"] \in FanStates
        /\ "mode" \in DOMAIN hvac_states[hvac_id] => hvac_states[hvac_id]["mode"] \in Modes

\* C36: if the write of an HVAC set command fails, the record is left as it
\* was before the command: once handle_set_command has returned from a command
\* that put nothing on the bus, with no update of the listener in between, the
\* record of the HVAC is the one the command found.
C36_FailedWriteLeavesRecord ==
    (h_pc = "done" /\ tx = <<>> /\ u_pc = "idle") => hvac_states[1] = h_before

\* ---------------------------------------------------------------------------
\* Bypass commands for any zone id.

\* Bypass commands for the zones and for zone ids that name none, after a
\* login that left any of the snapshots, on a port whose calls may raise.
NextBypassAny ==
    \/ BCall
    \/ BCallOther
    \/ BAcquire
    \/ BRun
    \/ BLoginReport
    \/ BListenerReport
    \/ BRequeryReport

SpecBypassAny == InitBypass /\ [][NextBypassAny]_vars

\* C34: handle_bypass_command with a zone id outside 1..16 writes no bypass
\* command and leaves the bypass state of every zone as it was: once it has
\* returned or raised, nothing is on the bus and the snapshot is the one it
\* found (sixteen N in place of a malformed one).
C34_OtherZoneChangesNothing ==
    (b_pc \in {"done", "raised"} /\ b_zone \notin 1..ZONE_COUNT) =>
        /\ tx = <<>>
        /\ bypass_states \in {b_before, SnapshotOrDefault(b_before)}

\* C35: if the write of a bypass command fails (send_command returns False),
\* the stored snapshot does not take the new value: when the with block is
\* left it is the snapshot the block found, or sixteen N if that one was empty
\* or not of sixteen characters.
C35_FailedWriteKeepsSnapshot ==
    [][(b_pc = "locked" /\ b_pc' = "done" /\ b_command' # NONE /\ ~b_success')
           => bypass_states' = (IF bypass_states = <<>> \/ Len(bypass_states) # 16
                                THEN [i \in 1..16 |-> "N"] ELSE bypass_states)]_vars

\* A command for a zone that was not bypassed failed at the flush, after its
\* bytes were written: the stored snapshot is the one from before, not the
\* one of the command.
C35_Witness ==
    /\ b_pc = "done"
    /\ b_command # NONE
    /\ ~b_success
    /\ tx # <<>>
    /\ b_payload = "ON"
    /\ b_before = [i \in 1..16 |-> "N"]
    /\ bypass_states = b_before
    /\ b_command # b_before

\* f"@S B 1 {state}\r" without the state, and the state of such a command.
BYPASS_COMMAND_PREFIX == <<"@", "S", SP, "B", SP, "1", SP>>
BypassPayload(command) == SubSeq(command, Len(BYPASS_COMMAND_PREFIX) + 1, Len(command) - 1)

\* C37: every bypass command handle_bypass_command writes to the bus carries
\* a state of exactly 16 characters, each Y or N, whatever bypass reports and
\* bypass set commands came before.
C37_PayloadIsSixteenYN ==
    \A i \in 1..Len(tx) :
        /\ SubSeq(tx[i], 1, Len(BYPASS_COMMAND_PREFIX)) = BYPASS_COMMAND_PREFIX
        /\ tx[i][Len(tx[i])] = CR
        /\ Len(BypassPayload(tx[i])) = 16
        /\ \A j \in 1..16 : BypassPayload(tx[i])[j] \in {"Y", "N"}

\* A command was written after the login had stored the two characters before
\* the X of a report: the handler found a snapshot of two characters.
C37_Witness ==
    /\ b_pc = "done"
    /\ b_before = <<"N", "Y">>
    /\ b_zone = 0
    /\ Len(tx) = 1
    /\ BypassPayload(tx[1]) = [i \in 1..16 |-> IF i = 16 THEN "Y" ELSE "N"]

\* ---------------------------------------------------------------------------
\* Two bypass commands at once.

\* Two threads in handle_bypass_command, after a login that left any of the
\* snapshots, on a port whose calls succeed.
InitBypassPair ==
    /\ InitBypass
    /\ ioFails = FALSE

NextBypassPair ==
    \/ BCall
    \/ BAcquire
    \/ BRun
    \/ B2Call
    \/ B2Acquire
    \/ B2Read
    \/ B2Send

SpecBypassPair == InitBypassPair /\ [][NextBypassPair]_vars

\* The character a payload stores for a zone.
BypassCharacter(payload) == IF payload = "ON" THEN "Y" ELSE "N"

\* C38: two bypass set commands for different zones that run at once and are
\* both sent are serialized by the state lock: when both have returned, the
\* stored snapshot has the character of each command at its zone, and so has
\* the state of the command written last.
C38_BothTogglesKept ==
    (/\ b_pc = "done"
     /\ b2_pc = "done"
     /\ b_payload \in {"ON", "OFF"}
     /\ b_zone # b2_zone) =>
        /\ Len(tx) = 2
        /\ bypass_states[b_zone] = BypassCharacter(b_payload)
        /\ bypass_states[b2_zone] = BypassCharacter(b2_payload)
        /\ BypassPayload(tx[2])[b_zone] = BypassCharacter(b_payload)
        /\ BypassPayload(tx[2])[b2_zone] = BypassCharacter(b2_payload)
        /\ BypassPayload(tx[2]) = bypass_states

\* Both commands have returned: the second thread had the lock first and
\* bypassed zone 16, the first then bypassed zone 3 of a snapshot of zones
\* not bypassed.
C38_Witness ==
    /\ b_pc = "done"
    /\ b2_pc = "done"
    /\ b_zone = 3
    /\ b2_zone = ZONE_COUNT
    /\ b_before = [i \in 1..ZONE_COUNT |-> IF i = ZONE_COUNT THEN "Y" ELSE "N"]
    /\ BypassPayload(tx[1]) = b_before
    /\ bypass_states = [i \in 1..ZONE_COUNT |-> IF i \in {3, ZONE_COUNT} THEN "Y" ELSE "N"]

\* ---------------------------------------------------------------------------
\* The two locks.

\* What the bus sends during a run of the three threads, and how many lines.
LocksWire == {LINE_COVER \o <<CR>>}
MaxLockLines == 1

\* The listener, a cover-stop thread and a bypass command of the MQTT thread,
\* on a port whose calls succeed.
InitLocks ==
    /\ InitCommon
    /\ wire = LocksWire
    /\ budget = MaxLockLines
    /\ ioFails = FALSE
    /\ l_pc = "top"

NextLocks ==
    \/ LTop
    \/ LDate
    \/ LAcquire
    \/ LInWaiting
    \/ LRead
    \/ LFrame
    \/ LDispatch
    \/ LIdleWake
    \/ StopCommand
    \/ QWrite("stop")
    \/ QPoll("stop")
    \/ QRead("stop")
    \/ QWake("stop")
    \/ StopQueryReturn
    \/ StopSend
    \/ B2Call
    \/ B2Acquire
    \/ B2Read
    \/ B2Send
    \/ Deliver
    \/ Tick

SpecLocks == InitLocks /\ [][NextLocks]_vars

\* C39: the threads never deadlock on the serial lock and the state lock. A
\* thread that holds one of the locks holds or waits for no other: the
\* listener holds the serial lock only for in_waiting and read, which it can
\* always do; the thread in handle_bypass_command holds the state lock and
\* can always go on, its accessors entering the lock it holds; no other
\* thread takes a lock. So whoever waits for a lock waits for a thread that
\* is not waiting.
C39_NoLockDeadlock ==
    /\ serial_lock \in {FREE, "listener"}
    /\ state_lock \in {FREE, "mqtt2"}
    /\ serial_lock = "listener" => (l_pc \in {"waiting", "read"} /\ ENABLED (LInWaiting \/ LRead))
    /\ state_lock = "mqtt2" => (b2_pc \in {"locked", "send"} /\ ENABLED (B2Read \/ B2Send))

\* The MQTT thread holds the state lock and is about to write its command,
\* the listener has a message to dispatch and waits for the state lock, and
\* the cover-stop thread is in its query.
C39_Witness ==
    /\ state_lock = "mqtt2"
    /\ b2_pc = "send"
    /\ l_pc = "dispatch"
    /\ l_msgs # <<>>
    /\ s_pc = "query"
    /\ q_pc["stop"] = "poll"

\* ---------------------------------------------------------------------------
\* Fragments without content.

\* C40: a fragment that is empty after trimming is discarded by the framer:
\* no message that is the bare marker "@" is handed to the dispatcher.
C40_NoBareMarkerDispatched ==
    \A i \in 1..Len(dispatched) : dispatched[i] # <<"@">>

=============================================================================
